---- MODULE Spec2Model ----
(***************************************************************************)
(* A model of peg.py (clarete/langlang): the grammar lexer, the direct     *)
(* matcher (class Match), the bytecode compiler (class Compiler) and the   *)
(* instruction set the compiled program is written for.                    *)
(*                                                                         *)
(* Characters are one-character strings, Python strings are sequences of   *)
(* characters, 0-based Python indexes are kept (data[pos] is data[pos+1]   *)
(* here).                                                                  *)
(***************************************************************************)
EXTENDS Integers, Sequences, FiniteSets, TLC

VARIABLES
    grammar,        \* the parsed Grammar handed to Match / Compiler
    data,           \* Match.data
    pos,            \* Match.pos
    atom,           \* the node the matching session exercises
    last,           \* the last matchAtom call: node, pos before, result
    p_code,         \* Parser.code
    p_pos,          \* Parser.pos
    p_line,         \* Parser.line
    p_token_start,  \* Parser.token_start
    p_token,        \* Parser.token
    p_st,           \* how the last lexer call ended ("new" before the first)
    p_result,       \* how Parser.run ended
    p_peeked,       \* the token peekt returned, when peekt was the last call
    compiler,       \* the Compiler object
    program,        \* what genCode returned, and the addresses it assigned
    vm,             \* the machine running the program on data
    sids,           \* the _str calls of the session: <<value, index returned>>
    again,          \* what a second Compiler emitted for the same grammar
    gen_call        \* the last call of gen: its arguments and the word returned

matchVars == <<grammar, data, pos, atom, last>>
lexVars == <<p_code, p_pos, p_line, p_token_start, p_token, p_st, p_result, p_peeked>>
compileVars == <<compiler, program, vm, sids, again, gen_call>>
vars == <<matchVars, lexVars, compileVars>>

(***************************************************************************)
(* Bounds of the model.                                                    *)
(***************************************************************************)
MaxLen == 3         \* longest input handed to the matcher
MaxDepth == 24      \* nesting of matchAtom calls before RecursionError
MaxSrcLen == 3      \* characters of grammar source after a chosen prefix
MaxStack == 5       \* entries of a stack of the machine
MaxEvents == 12     \* CAP_OPEN and CAP_CLOSE executed in one run of the machine

(***************************************************************************)
(* Characters.                                                             *)
(***************************************************************************)
DataChars == {"a", "b"}

ord(c) ==
    CASE c = "a" -> 97
      [] c = "b" -> 98
      [] c = "c" -> 99
      [] c = "_" -> 95
      [] OTHER -> 0

RECURSIVE SeqsUpTo(_, _)
SeqsUpTo(S, n) ==
    IF n = 0 THEN {<<>>}
    ELSE LET shorter == SeqsUpTo(S, n - 1)
         IN  shorter \cup {Append(s, c) : s \in shorter, c \in S}

(***************************************************************************)
(* AST nodes (class Node and its subclasses): a record with the class name *)
(* in k and the payload in v.  A Class entry is <<"c", ch>> for a single   *)
(* character and <<"r", lo, hi>> for a range [lo, hi].                     *)
(***************************************************************************)
Literal(s) == [k |-> "Literal", v |-> s]
Dot == [k |-> "Dot"]
Class(items) == [k |-> "Class", v |-> items]
Identifier(n) == [k |-> "Identifier", v |-> n]
And(x) == [k |-> "And", v |-> x]
Not(x) == [k |-> "Not", v |-> x]
Question(x) == [k |-> "Question", v |-> x]
Star(x) == [k |-> "Star", v |-> x]
Plus(x) == [k |-> "Plus", v |-> x]
Sequence(xs) == [k |-> "Sequence", v |-> xs]
Expression(xs) == [k |-> "Expression", v |-> xs]
String(s) == [k |-> "String", v |-> s]
CaptureBlock(x) == [k |-> "CaptureBlock", v |-> x]
CaptureNode(x) == [k |-> "CaptureNode", v |-> x]
Label(name, x) == [k |-> "Label", label |-> name, v |-> x]
Throw(name) == [k |-> "Throw", v |-> name]
List(xs) == [k |-> "List", v |-> xs]
Definition(n, x) == [name |-> n, expr |-> x]

ClassChar(c) == <<"c", c>>
ClassRange(lo, hi) == <<"r", lo, hi>>

(***************************************************************************)
(* Python values returned by the matcher: None, a str, a list of values.   *)
(***************************************************************************)
None == [t |-> "None"]
Str(s) == [t |-> "str", s |-> s]
Lst(l) == [t |-> "list", l |-> l]

\* Python truthiness of a matcher value (None, '' and [] are falsy).
Truthy(val) ==
    CASE val.t = "None" -> FALSE
      [] val.t = "str" -> val.s # <<>>
      [] val.t = "list" -> val.l # <<>>

\* fio: "first if only".
fio(thing) ==
    IF thing.t = "list" /\ Len(thing.l) = 1 THEN thing.l[1] ELSE thing

\* grammarAsDict: name -> expression, a later definition of a name wins.
grammarAsDict(g) ==
    [n \in {g[i].name : i \in 1..Len(g)} |->
        LET idx == CHOOSE i \in 1..Len(g) :
                      /\ g[i].name = n
                      /\ \A j \in 1..Len(g) : g[j].name = n => j <= i
        IN  g[idx].expr]

(***************************************************************************)
(* class Match.  A call returns [m, v, p, st]: the pair (matched, value)   *)
(* it returns, the cursor it leaves in Match.pos, and how it ended: "ok"   *)
(* (returned), "exc" (raised: unexpected atom, unbound name, recursion     *)
(* limit) or "loop" (never returns).                                       *)
(***************************************************************************)
Ok(m, val, p) == [m |-> m, v |-> val, p |-> p, st |-> "ok"]
Raise(p) == [m |-> FALSE, v |-> None, p |-> p, st |-> "exc"]
Diverge(p) == [m |-> FALSE, v |-> None, p |-> p, st |-> "loop"]

\* advance without the test against len(data).
advance_Unchecked(d, p, n) == p + n

\* Match.advance(n): the new value of Match.pos.
advance(d, p, n) == IF p + n >= Len(d) + 1 THEN p ELSE p + n

\* Match.current() == c, for a character c (current() is None past the end).
currentIs(d, p, c) == p < Len(d) /\ d[p + 1] = c

\* Match.ret(mark): data[mark:pos] or None; a slice ends at len(data) at most.
ret(d, mark, p) ==
    LET s == SubSeq(d, mark + 1, IF p > Len(d) THEN Len(d) ELSE p)
    IN  IF s = <<>> THEN None ELSE Str(s)

ClassEntryMatches(e, c) ==
    IF e[1] = "r" THEN ord(e[2]) <= ord(c) /\ ord(c) <= ord(e[3])
    ELSE c = e[2]

matchClass(d, a, p) ==
    IF p >= Len(d) THEN Ok(FALSE, None, p)
    ELSE LET c == d[p + 1]
         IN  IF \E i \in 1..Len(a.v) : ClassEntryMatches(a.v[i], c)
             THEN Ok(TRUE, Str(<<c>>), advance(d, p, 1))
             ELSE Ok(FALSE, None, p)

\* The loop of matchLiteral: the cursor after characters i.. of s were tried.
RECURSIVE literalLoop(_, _, _, _)
literalLoop(d, s, i, p) ==
    IF i > Len(s) THEN p
    ELSE literalLoop(d, s, i + 1,
                     IF currentIs(d, p, s[i]) THEN advance(d, p, 1) ELSE p)

matchLiteral(d, a, p) ==
    LET q == literalLoop(d, a.v, 1, p)
        output == ret(d, p, q)
    IN  Ok(output # None, output, q)

matchDot(d, a, p) ==
    LET q == advance(d, p, 1)
        output == ret(d, p, q)
    IN  Ok(output # None, output, q)

RECURSIVE matchAtom(_, _, _, _, _)
RECURSIVE starLoop(_, _, _, _, _, _)
RECURSIVE sequenceLoop(_, _, _, _, _, _, _, _)
RECURSIVE expressionLoop(_, _, _, _, _, _)

\* starLoop gathering the values in the wrong order.
RECURSIVE starLoop_Prepend(_, _, _, _, _, _)
starLoop_Prepend(g, d, x, p, out, depth) ==
    LET r == matchAtom(g, d, x, p, depth)
    IN  IF r.st # "ok" THEN r
        ELSE IF ~r.m THEN Ok(TRUE, Lst(out), r.p)
        ELSE IF r.p = p THEN Diverge(p)
        ELSE starLoop_Prepend(g, d, x, r.p, <<r.v>> \o out, depth)

\* The while loop of matchStar, with out the values gathered so far.  An
\* iteration that matches without moving the cursor is followed by the same
\* iteration for ever (pos is all the state the matcher changes).
starLoop(g, d, x, p, out, depth) ==
    LET r == matchAtom(g, d, x, p, depth)
    IN  IF r.st # "ok" THEN r
        ELSE IF ~r.m THEN Ok(TRUE, Lst(out), r.p)
        ELSE IF r.p = p THEN Diverge(p)
        ELSE starLoop(g, d, x, r.p, Append(out, r.v), depth)

matchStar(g, d, a, p, depth) == starLoop(g, d, a.v, p, <<>>, depth)

matchPlus(g, d, a, p, depth) ==
    LET r == matchAtom(g, d, a.v, p, depth)
    IN  IF r.st # "ok" THEN r
        ELSE IF r.m
        THEN LET s == matchStar(g, d, Star(a.v), r.p, depth)
             IN  IF s.st # "ok" THEN s
                 ELSE Ok(TRUE, fio(Lst(<<r.v>> \o s.v.l)), s.p)
        ELSE Ok(FALSE, None, r.p)

matchQuestion(g, d, a, p, depth) ==
    LET r == matchAtom(g, d, a.v, p, depth)
    IN  IF r.st # "ok" THEN r ELSE Ok(TRUE, r.v, r.p)

\* matchNot without "self.pos = d".
matchNot_NoRestore(g, d, a, p, depth) ==
    LET r == matchAtom(g, d, a.v, p, depth)
    IN  IF r.st # "ok" THEN r
        ELSE IF r.m THEN Ok(FALSE, None, r.p)
        ELSE Ok(TRUE, None, r.p)

matchNot(g, d, a, p, depth) ==
    LET r == matchAtom(g, d, a.v, p, depth)
    IN  IF r.st # "ok" THEN r
        ELSE IF r.m THEN Ok(FALSE, None, p)
        ELSE Ok(TRUE, None, r.p)

\* sequenceLoop without "self.pos = d" on the failing element.
RECURSIVE sequenceLoop_NoRestore(_, _, _, _, _, _, _, _)
sequenceLoop_NoRestore(g, d, xs, i, mark, p, out, depth) ==
    IF i > Len(xs) THEN Ok(TRUE, fio(Lst(out)), p)
    ELSE LET r == matchAtom(g, d, xs[i], p, depth)
         IN  IF r.st # "ok" THEN r
             ELSE IF r.m /\ Truthy(r.v)
             THEN sequenceLoop_NoRestore(g, d, xs, i + 1, mark, r.p, Append(out, r.v), depth)
             ELSE IF r.m
             THEN sequenceLoop_NoRestore(g, d, xs, i + 1, mark, r.p, out, depth)
             ELSE Ok(FALSE, None, r.p)

\* The for loop of matchSequence from element i on; mark is the entry cursor.
sequenceLoop(g, d, xs, i, mark, p, out, depth) ==
    IF i > Len(xs) THEN Ok(TRUE, fio(Lst(out)), p)
    ELSE LET r == matchAtom(g, d, xs[i], p, depth)
         IN  IF r.st # "ok" THEN r
             ELSE IF r.m /\ Truthy(r.v)
             THEN sequenceLoop(g, d, xs, i + 1, mark, r.p, Append(out, r.v), depth)
             ELSE IF r.m
             THEN sequenceLoop(g, d, xs, i + 1, mark, r.p, out, depth)
             ELSE Ok(FALSE, None, mark)

matchSequence(g, d, a, p, depth) ==
    sequenceLoop(g, d, a.v, 1, p, p, <<>>, depth)

\* The for loop of matchExpression from alternative i on.
expressionLoop(g, d, xs, i, p, depth) ==
    IF i > Len(xs) THEN Ok(FALSE, None, p)
    ELSE LET r == matchAtom(g, d, xs[i], p, depth)
         IN  IF r.st # "ok" THEN r
             ELSE IF r.m THEN Ok(TRUE, r.v, r.p)
             ELSE expressionLoop(g, d, xs, i + 1, r.p, depth)

matchExpression(g, d, a, p, depth) == expressionLoop(g, d, a.v, 1, p, depth)

matchIdentifier(g, d, a, p, depth) ==
    IF a.v \in DOMAIN g THEN matchAtom(g, d, g[a.v], p, depth)
    ELSE Raise(p)

\* depth is the number of nested matchAtom calls still allowed.
matchAtom(g, d, a, p, depth) ==
    IF depth = 0 THEN Raise(p)
    ELSE CASE a.k = "Class" -> matchClass(d, a, p)
           [] a.k = "Literal" -> matchLiteral(d, a, p)
           [] a.k = "Dot" -> matchDot(d, a, p)
           [] a.k = "Identifier" -> matchIdentifier(g, d, a, p, depth - 1)
           [] a.k = "Plus" -> matchPlus(g, d, a, p, depth - 1)
           [] a.k = "Star" -> matchStar(g, d, a, p, depth - 1)
           [] a.k = "Not" -> matchNot(g, d, a, p, depth - 1)
           [] a.k = "Sequence" -> matchSequence(g, d, a, p, depth - 1)
           [] a.k = "Expression" -> matchExpression(g, d, a, p, depth - 1)
           [] a.k = "Question" -> matchQuestion(g, d, a, p, depth - 1)
           [] OTHER -> Raise(p)

(***************************************************************************)
(* class Parser, the lexer.  A lexer routine returns the cursor it leaves  *)
(* in Parser.pos and how it ended: "ok", the name of the exception it      *)
(* raised, or "loop" when it never returns.                                *)
(***************************************************************************)
NoChar == "<None>"              \* peekc() at or past the end of the source

\* str.isalpha, str.isdigit and str.isspace on the characters of the sources.
isalpha(c) == c \in {"a", "b", "c", "d", "e", "f", "x", "A", "B", "C", "D", "E", "F", "S"}
isdigit(c) == c \in {"0", "1", "2", "3", "4", "5", "6", "7", "8", "9"}
isalnum(c) == isalpha(c) \/ isdigit(c)
isspace(c) == c \in {" ", "\n", "\t", "\r"}

peekc(code, p, n) == IF p + n >= Len(code) THEN NoChar ELSE code[p + n + 1]
testc(code, p, c) == peekc(code, p, 0) = c

Token(type, value, line, tpos) ==
    [type |-> type, value |-> value, line |-> line, pos |-> tpos]

\* cleanspaces: [pos, line] after the run of white space at p.
RECURSIVE cleanspaces(_, _, _)
cleanspaces(code, p, line) ==
    IF peekc(code, p, 0) # NoChar /\ isspace(peekc(code, p, 0))
    THEN IF testc(code, p, "\n") THEN cleanspaces(code, p + 1, line + 1)
         ELSE cleanspaces(code, p + 1, line)
    ELSE [pos |-> p, line |-> line]

\* The inner loop of spacing: the cursor at the end of a comment line.
RECURSIVE skipComment(_, _)
skipComment(code, p) ==
    IF ~testc(code, p, "\n") /\ peekc(code, p, 0) # NoChar
    THEN skipComment(code, p + 1)
    ELSE p

\* The outer loop of spacing, entered after cleanspaces.
RECURSIVE commentLoop(_, _, _)
commentLoop(code, p, line) ==
    IF testc(code, p, "#")
    THEN LET c == cleanspaces(code, skipComment(code, p + 1), line)
         IN  commentLoop(code, c.pos, c.line)
    ELSE [pos |-> p, line |-> line]

spacing(code, p, line) ==
    LET c == cleanspaces(code, p, line) IN commentLoop(code, c.pos, c.line)

\* int(c, 16) of one hex digit.
hexDigit(c) ==
    CASE c = "0" -> 0
      [] c = "1" -> 1
      [] c = "2" -> 2
      [] c = "3" -> 3
      [] c = "4" -> 4
      [] c = "5" -> 5
      [] c = "6" -> 6
      [] c = "7" -> 7
      [] c = "8" -> 8
      [] c = "9" -> 9
      [] c \in {"a", "A"} -> 10
      [] c \in {"b", "B"} -> 11
      [] c \in {"c", "C"} -> 12
      [] c \in {"d", "D"} -> 13
      [] c \in {"e", "E"} -> 14
      [] c \in {"f", "F"} -> 15

isHex(code, p) ==
    LET c == peekc(code, p, 0)
    IN  c # NoChar /\ (isdigit(c) \/ c \in {"a", "b", "c", "d", "e", "f",
                                             "A", "B", "C", "D", "E", "F"})

chr(n) ==
    CASE n = 10 -> "\n"
      [] n = 97 -> "a"
      [] n = 98 -> "b"
      [] OTHER -> "chr(" \o ToString(n) \o ")"

CharRead(c, p) == [st |-> "ok", c |-> c, pos |-> p]
CharRaise(exc, p) == [st |-> exc, c |-> NoChar, pos |-> p]

\* The loop of lexHex: n is the value of the digits read so far, of which
\* there are count.
RECURSIVE hexLoop(_, _, _, _)
hexLoop(code, p, n, count) ==
    IF isHex(code, p)
    THEN hexLoop(code, p + 1, 16 * n + hexDigit(peekc(code, p, 0)), count + 1)
    ELSE IF count = 0 THEN CharRaise("ValueError", p)
    ELSE CharRead(chr(n), p)

lexHex(code, p) == hexLoop(code, p, 0, 0)

\* lexChar.  After a backslash at the end of the source the SyntaxError is
\* built but not raised, and the routine goes on to return peekc() (None).
lexChar(code, p) ==
    IF testc(code, p, "\\")
    THEN LET q == p + 1
             c == peekc(code, q, 0)
         IN  CASE c = "n" -> CharRead("\n", q + 1)
               [] c = "r" -> CharRead("\r", q + 1)
               [] c = "t" -> CharRead("\t", q + 1)
               [] c = "'" -> CharRead("'", q + 1)
               [] c = "\"" -> CharRead("\"", q + 1)
               [] c = "[" -> CharRead("[", q + 1)
               [] c = "]" -> CharRead("]", q + 1)
               [] c = "-" -> CharRead("-", q + 1)
               [] c = "\\" -> CharRead("\\", q + 1)
               [] c = "x" -> lexHex(code, q + 1)
               [] c = NoChar -> CharRead(NoChar, q + 1)
               [] OTHER -> CharRaise("SyntaxError", q)
    ELSE CharRead(peekc(code, p, 0), p + 1)

LexReturn_Advance(token, p, line, start) ==
    [st |-> "ok", token |-> token, pos |-> p + 1, line |-> line, token_start |-> start]

LexReturn(token, p, line, start) ==
    [st |-> "ok", token |-> token, pos |-> p, line |-> line, token_start |-> start]
LexRaise(exc, p, line, start) ==
    [st |-> exc, token |-> None, pos |-> p, line |-> line, token_start |-> start]

\* The while loop of lexLiteral.
RECURSIVE literalChars(_, _, _, _)
literalChars(code, p, end, output) ==
    IF peekc(code, p, 0) # NoChar /\ ~testc(code, p, end)
    THEN LET ch == lexChar(code, p)
         IN  IF ch.st # "ok" THEN [st |-> ch.st, pos |-> ch.pos, output |-> output]
             ELSE literalChars(code, ch.pos, end, Append(output, ch.c))
    ELSE [st |-> "ok", pos |-> p, output |-> output]

lexLiteral(code, p, line, start, typ, end) ==
    LET body == literalChars(code, p, end, <<>>)
    IN  IF body.st # "ok" THEN LexRaise(body.st, body.pos, line, start)
        ELSE IF ~testc(code, body.pos, end)
        THEN LexRaise("SyntaxError", body.pos, line, start)
        ELSE LexReturn(Token(typ, Str(body.output), line, start),
                       body.pos + 1, line, start)

\* The while loop of lexRange.  Once the cursor is at or past the end of the
\* source testc(']') is false for ever: every further iteration reads None,
\* appends it and moves the cursor on.
RECURSIVE rangeLoop(_, _, _, _)
rangeLoop(code, p, ranges, chars) ==
    IF testc(code, p, "]")
    THEN [st |-> "ok", pos |-> p, ranges |-> ranges, chars |-> chars]
    ELSE IF p >= Len(code)
    THEN [st |-> "loop", pos |-> p, ranges |-> ranges, chars |-> chars]
    ELSE LET left == lexChar(code, p)
         IN  IF left.st # "ok"
             THEN [st |-> left.st, pos |-> left.pos, ranges |-> ranges, chars |-> chars]
             ELSE IF testc(code, left.pos, "-")
             THEN LET right == lexChar(code, left.pos + 1)
                  IN  IF right.st # "ok"
                      THEN [st |-> right.st, pos |-> right.pos,
                            ranges |-> ranges, chars |-> chars]
                      ELSE rangeLoop(code, right.pos,
                                     Append(ranges, ClassRange(left.c, right.c)), chars)
             ELSE rangeLoop(code, left.pos, ranges, Append(chars, ClassChar(left.c)))

classPayload_CharsFirst(ranges, chars) == chars \o ranges

\* The payload of the CLASS token.
classPayload(ranges, chars) == ranges \o chars

lexRange(code, p, line, start) ==
    LET body == rangeLoop(code, p, <<>>, <<>>)
    IN  IF body.st # "ok" THEN LexRaise(body.st, body.pos, line, start)
        ELSE IF ~testc(code, body.pos, "]")
        THEN LexRaise("SyntaxError", body.pos, line, start)
        ELSE LexReturn(Token("CLASS", Lst(classPayload(body.ranges, body.chars)),
                             line, start),
                       body.pos + 1, line, start)

\* The while loop of the Identifier branch of lex.
RECURSIVE identEnd(_, _)
identEnd(code, p) ==
    IF peekc(code, p, 0) # NoChar /\ (isalnum(peekc(code, p, 0)) \/ testc(code, p, "_"))
    THEN identEnd(code, p + 1)
    ELSE p

\* The one-character tokens of lex.
OneCharToken(c) ==
    CASE c = "(" -> "OPEN"
      [] c = ")" -> "CLOSE"
      [] c = "/" -> "PRIORITY"
      [] c = "." -> "DOT"
      [] c = "*" -> "STAR"
      [] c = "+" -> "PLUS"
      [] c = "!" -> "NOT"
      [] c = "&" -> "AND"
      [] c = "?" -> "QUESTION"
      [] c = ";" -> "QUIET"
      [] c = "^" -> "LABEL"
      [] c = "{" -> "OPLS"
      [] c = "}" -> "CLCB"
      [] OTHER -> "NONE"

\* lex, called with Parser.pos = p0 and Parser.line = line0.
lex(code, p0, line0) ==
    LET sp == spacing(code, p0, line0)
        p == sp.pos
        line == sp.line
        c == peekc(code, p, 0)
    IN  IF c = NoChar THEN LexReturn(Token("END", None, line, p), p, line, p)
        ELSE IF isalpha(c) \/ c = "_"
        THEN LET q == identEnd(code, p)
             IN  LexReturn(Token("IDENTIFIER", Str(SubSeq(code, p + 1, q)), line, p),
                           q, line, p)
        ELSE IF c = "'" THEN lexLiteral(code, p + 1, line, p, "LITERAL", "'")
        ELSE IF c = "\"" THEN lexLiteral(code, p + 1, line, p, "STRING", "\"")
        ELSE IF c = "[" THEN lexRange(code, p + 1, line, p)
        ELSE IF c = "<"
        THEN IF testc(code, p + 1, "-")
             THEN LexReturn(Token("ARROW", None, line, p), p + 2, line, p)
             ELSE LexRaise("SyntaxError", p + 1, line, p)
        ELSE IF OneCharToken(c) # "NONE"
        THEN LexReturn(Token(OneCharToken(c), None, line, p), p + 1, line, p)
        ELSE IF c = "%"
        THEN IF testc(code, p + 1, "{")
             THEN LexReturn(Token("OPCB", None, line, p), p + 2, line, p)
             ELSE LexReturn(Token("OPCAP", None, line, p), p + 1, line, p)
        ELSE LexRaise("SyntaxError", p, line, p)

(***************************************************************************)
(* Node.__eq__, and the places of a grammar.  A place is the path from     *)
(* a definition to one of the nodes below it: <<i>> is the expression of   *)
(* the i-th definition, and each further step is the index of a child.     *)
(* Two places hold two objects even when the nodes are equal.              *)
(***************************************************************************)
UnaryKinds == {"And", "Not", "Question", "Star", "Plus", "CaptureBlock", "CaptureNode"}
ListKinds == {"Sequence", "Expression", "List"}
Terminals == {"String", "Literal", "Dot", "Class"}

\* Node.__eq__: the same class and equal values (a capture attribute is not
\* looked at).
RECURSIVE NodeEq(_, _)
NodeEq_WithMarks(a, b) ==
    /\ a.k = b.k
    /\ ("capture" \in DOMAIN a) = ("capture" \in DOMAIN b)
    /\ CASE a.k = "Dot" -> TRUE
         [] a.k \in {"Literal", "String", "Identifier", "Throw", "Class"} -> a.v = b.v
         [] a.k \in UnaryKinds -> NodeEq(a.v, b.v)
         [] a.k \in ListKinds ->
                /\ Len(a.v) = Len(b.v)
                /\ \A i \in 1..Len(a.v) : NodeEq(a.v[i], b.v[i])
         [] a.k = "Label" -> a.label = b.label /\ NodeEq(a.v, b.v)

NodeEq(a, b) ==
    /\ a.k = b.k
    /\ CASE a.k = "Dot" -> TRUE
         [] a.k \in {"Literal", "String", "Identifier", "Throw", "Class"} -> a.v = b.v
         [] a.k \in UnaryKinds -> NodeEq(a.v, b.v)
         [] a.k \in ListKinds ->
                /\ Len(a.v) = Len(b.v)
                /\ \A i \in 1..Len(a.v) : NodeEq(a.v[i], b.v[i])
         [] a.k = "Label" -> a.label = b.label /\ NodeEq(a.v, b.v)

\* The nodes walker finds below a node that it neither gathers nor excludes.
children(node) ==
    CASE node.k \in UnaryKinds -> <<node.v>>
      [] node.k \in ListKinds -> node.v
      [] node.k = "Label" -> <<node.v>>
      [] OTHER -> <<>>

RECURSIVE nodeAt(_, _)
nodeAt(node, path) ==
    IF path = <<>> THEN node
    ELSE nodeAt(children(node)[path[1]], Tail(path))

At(g, path) == nodeAt(g[path[1]].expr, Tail(path))

RECURSIVE replaceAt(_, _, _)
replaceAt(node, path, new) ==
    IF path = <<>> THEN new
    ELSE IF node.k \in ListKinds
    THEN [node EXCEPT !.v[path[1]] = replaceAt(@, Tail(path), new)]
    ELSE [node EXCEPT !.v = replaceAt(@, Tail(path), new)]

\* getattr(a, 'capture', None)
hasCapture(node) == "capture" \in DOMAIN node /\ node.capture

\* terminal.capture = True, on the node at a place.
setCapture(g, path) ==
    LET node == At(g, path)
        marked == IF node.k = "Dot" THEN [k |-> "Dot", capture |-> TRUE]
                  ELSE [k |-> node.k, v |-> node.v, capture |-> TRUE]
    IN  [g EXCEPT ![path[1]].expr = replaceAt(@, Tail(path), marked)]

\* The stack walker starts with when its tree is the whole g: the
\* definitions are popped last to first.
roots(g) == [i \in 1..Len(g) |-> <<i>>]

\* The loop of walker: stk is the stack of places still to visit, found the
\* places gathered so far.
RECURSIVE walkLoop(_, _, _, _, _)
walkLoop(g, stk, found, exclude, gather) ==
    IF stk = <<>> THEN found
    ELSE LET current == stk[Len(stk)]
             rest == SubSeq(stk, 1, Len(stk) - 1)
             node == At(g, current)
         IN  IF node.k \in exclude THEN walkLoop(g, rest, found, exclude, gather)
             ELSE IF node.k \in gather
             THEN IF \E i \in 1..Len(found) : NodeEq(At(g, found[i]), node)
                  THEN walkLoop(g, rest, found, exclude, gather)
                  ELSE walkLoop(g, rest, Append(found, current), exclude, gather)
             ELSE walkLoop(g,
                           rest \o [i \in 1..Len(children(node)) |-> Append(current, i)],
                           found, exclude, gather)

walker(g, stk, exclude, gather) == walkLoop(g, stk, <<>>, exclude, gather)

RECURSIVE markAll(_, _, _)
markAll(g, found, i) ==
    IF i > Len(found) THEN g ELSE markAll(setCapture(g, found[i]), found, i + 1)

markTerminals(g, path) ==
    markAll(g, walker(g, <<path>>, {"Not"}, Terminals), 1)

\* grammarAsDict: the place of the expression a name stands for.
placeOf(g) ==
    [n \in {g[i].name : i \in 1..Len(g)} |->
        <<CHOOSE i \in 1..Len(g) :
              /\ g[i].name = n
              /\ \A j \in 1..Len(g) : g[j].name = n => j <= i>>]

\* followIdentifiers(d, skip, node) for the node at path.  It returns the
\* marked g and "ok", or "exc" when it raises: KeyError for a name
\* without definition, RecursionError when it is called on a definition it
\* is already working on (active), which it then does again without end.
RECURSIVE followIdentifiers(_, _, _, _, _)
RECURSIVE followLoop(_, _, _, _, _, _)
followLoop(g, d, skip, idents, i, active) ==
    IF i > Len(idents) THEN [g |-> g, st |-> "ok"]
    ELSE LET name == At(g, idents[i]).v
         IN  IF name \notin DOMAIN d THEN [g |-> g, st |-> "exc"]
             ELSE LET g1 == markTerminals(g, d[name])
                  IN  IF name \in skip
                      THEN followLoop(g1, d, skip, idents, i + 1, active)
                      ELSE IF d[name] \in active THEN [g |-> g1, st |-> "exc"]
                      ELSE LET r == followIdentifiers(g1, d, skip, d[name],
                                                      active \cup {d[name]})
                           IN  IF r.st # "ok" THEN r
                               ELSE followLoop(r.g, d, skip, idents, i + 1, active)

followIdentifiers(g, d, skip, path, active) ==
    followLoop(g, d, skip, walker(g, <<path>>, {"Not"}, {"Identifier"}), 1, active)

\* The second loop of markCaptures.
RECURSIVE markBlocks(_, _, _, _, _)
markBlocks(g, d, skip, blocks, i) ==
    IF i > Len(blocks) THEN [g |-> g, st |-> "ok"]
    ELSE LET r == followIdentifiers(markTerminals(g, blocks[i]), d, skip, blocks[i], {})
         IN  IF r.st # "ok" THEN r ELSE markBlocks(r.g, d, skip, blocks, i + 1)

namesAt(g, paths) == {At(g, paths[i]).v : i \in 1..Len(paths)}

markCaptures(g) ==
    LET d == placeOf(g)
        blocks == walker(g, roots(g), {"Not"}, {"CaptureBlock"})
        skip == namesAt(g, walker(g, roots(g), {"Not", "CaptureBlock"}, {"Identifier"}))
        used == UNION {namesAt(g, walker(g, <<blocks[i]>>, {"Not"}, {"Identifier"})) :
                          i \in 1..Len(blocks)}
    IN  markBlocks(g, d, skip \ used, blocks, 1)

(***************************************************************************)
(* Instructions and gen.  An instruction word w is kept as the pair of its *)
(* bits from OPERATOR_OFFSET up (op = w >> 27) and its low 27 bits (arg =  *)
(* w & 0x07ffffff).                                                        *)
(***************************************************************************)
Instructions ==
    [halt |-> 0, char |-> 1, any |-> 2, choice |-> 3, commit |-> 4, fail |-> 5,
     fail_twice |-> 6, partial_commit |-> 7, back_commit |-> 8, test_char |-> 9,
     test_any |-> 10, jump |-> 11, call |-> 12, return |-> 13, span |-> 14,
     set |-> 15, throw |-> 16, cap_open |-> 17, cap_close |-> 18, atom |-> 19,
     open |-> 20, close |-> 21, capchar |-> 22, end |-> 23]

INSTRUCTION_SIZE == 32
OPERATOR_SIZE == 5
OPERATOR_OFFSET == INSTRUCTION_SIZE - OPERATOR_SIZE
S2_OPERAND_SIZE == 16

\* a | b on natural numbers.
RECURSIVE BitOr(_, _)
BitOr(a, b) ==
    IF a = 0 THEN b
    ELSE IF b = 0 THEN a
    ELSE 2 * BitOr(a \div 2, b \div 2) + (IF a % 2 = 1 \/ b % 2 = 1 THEN 1 ELSE 0)

\* gen(name): no arguments.
gen0(name) == [op |-> Instructions[name], arg |-> 0]

\* gen(name, arg0): a single 27 bits argument.
gen1(name, arg0) ==
    [op |-> Instructions[name], arg |-> arg0 % (2 ^ OPERATOR_OFFSET)]

\* gen(name, arg0, arg1): two arguments, neither of them masked.
gen2(name, arg0, arg1) ==
    LET args == BitOr(arg1, arg0 * (2 ^ S2_OPERAND_SIZE))
    IN  [op |-> BitOr(Instructions[name], args \div (2 ^ OPERATOR_OFFSET)),
         arg |-> args % (2 ^ OPERATOR_OFFSET)]

(***************************************************************************)
(* class Compiler.  The compiler object is a record; a compile routine     *)
(* takes it and returns it with the routine's writes done.  A raised       *)
(* exception is st = "exc" (the object is of no use afterwards).  Where a  *)
(* routine goes on after a sub-compilation, what follows is an operator of *)
(* its own that takes the compiler the sub-compilation left.               *)
(***************************************************************************)
Compiler(g) ==
    LET m == markCaptures(g)
    IN  [st |-> IF m.st = "ok" /\ Len(g) > 0 THEN "ok" ELSE "exc",
         ga |-> m.g,
         start |-> IF Len(g) > 0 THEN g[1].name ELSE "",
         pos |-> 0,
         code |-> <<>>,
         callsites |-> <<>>,
         hasCaptureOps |-> walker(m.g, roots(m.g), {"Not"},
                                  {"CaptureBlock", "CaptureNode"}) # <<>>,
         capture |-> FALSE,
         strings |-> <<>>]

emit(c, word) == [c EXCEPT !.code = Append(@, word), !.pos = @ + 1]

\* self.code[i] = word
rewrite(c, i, word) == [c EXCEPT !.code[i + 1] = word]

\* self.strings.index(value)
index(strings, value) ==
    (CHOOSE i \in 1..Len(strings) :
        /\ strings[i] = value
        /\ \A j \in 1..(i - 1) : strings[j] # value) - 1

_str_Prepend(c, value) ==
    IF \E i \in 1..Len(c.strings) : c.strings[i] = value
    THEN [c |-> c, idx |-> index(c.strings, value)]
    ELSE [c |-> [c EXCEPT !.strings = <<value>> \o @], idx |-> 0]

\* _str: the compiler with value in its string table, and value's index.
_str(c, value) ==
    IF \E i \in 1..Len(c.strings) : c.strings[i] = value
    THEN [c |-> c, idx |-> index(c.strings, value)]
    ELSE [c |-> [c EXCEPT !.strings = Append(@, value)], idx |-> Len(c.strings)]

RECURSIVE compileAtom(_, _)

\* What cc returns, c1 being the compiler after compileAtom and currentPos
\* the write cursor before it.
ccReturn(c1, currentPos) == [c |-> c1, programSize |-> c1.pos - currentPos]

cc(c, a) == ccReturn(compileAtom(c, a), c.pos)

\* Capture.__enter__
captureEnter(c, isTerminal, capId) ==
    emit([c EXCEPT !.capture = TRUE], gen2("cap_open", isTerminal, capId))

\* Capture.__exit__, backup being the capture flag the Capture was built with
captureExit_Terminal(c, isTerminal, capId, backup) ==
    emit([c EXCEPT !.capture = backup], gen2("cap_close", 1, capId))

captureExit(c, isTerminal, capId, backup) ==
    emit([c EXCEPT !.capture = backup], gen2("cap_close", isTerminal, capId))

compileCaptureBlock(c, a) ==
    captureExit(compileAtom(captureEnter(c, 1, 0), a.v), 1, 0, c.capture)

compileCaptureNode(c, a) ==
    IF a.v.k # "Identifier" THEN [c EXCEPT !.st = "exc"]
    ELSE LET s == _str(c, a.v.v)
         IN  captureExit(compileAtom(captureEnter(s.c, 0, s.idx), a.v),
                         0, s.idx, c.capture)

\* compileNot after "size = self.cc(atom.value)": r is what cc returned, at
\* the address of the choice, backup the flag DisableCapture restores.
notEnd(r, at, backup) ==
    emit(emit(rewrite([r.c EXCEPT !.capture = backup], at,
                      gen1("choice", r.programSize + 3)),
              gen1("commit", 1)),
         gen0("fail"))

compileNot(c, a) ==
    notEnd(cc([emit(c, gen0("choice")) EXCEPT !.capture = FALSE], a.v),
           c.pos, c.capture)

\* compileAnd after "self.compileNot(atom)": c2 is the compiler it left,
\* at the value of the local pos.
andEnd(c2, at) ==
    emit(emit(rewrite(c2, at - 1, gen1("choice", (c2.pos - at) + 3)),
              gen1("commit", 1)),
         gen0("fail"))

compileAnd(c, a) == andEnd(compileNot(emit(c, gen0("choice")), a), c.pos + 1)

compileString(c, string) ==
    LET s == _str(c, string.v) IN emit(s.c, gen1("atom", s.idx))

\* The for loop of compileLiteral, from the i-th character on.
RECURSIVE literalEmit(_, _, _)
literalEmit(c, literal, i) ==
    IF i > Len(literal.v) THEN c
    ELSE IF c.capture \/ hasCapture(literal)
    THEN literalEmit(emit(emit(c, gen1("char", ord(literal.v[i]))), gen0("capchar")),
                     literal, i + 1)
    ELSE literalEmit(emit(c, gen1("char", ord(literal.v[i]))), literal, i + 1)

compileLiteral(c, literal) == literalEmit(c, literal, 1)

compileAny(c, a) ==
    IF c.capture \/ hasCapture(a) THEN emit(emit(c, gen0("any")), gen0("capchar"))
    ELSE emit(c, gen0("any"))

compileRange(c, theRange, capture) ==
    IF c.capture \/ capture
    THEN emit(emit(c, gen2("span", ord(theRange[2]), ord(theRange[3]))), gen0("capchar"))
    ELSE emit(c, gen2("span", ord(theRange[2]), ord(theRange[3])))

compileRangeOrLiteral(c, capture, thing) ==
    IF thing[1] = "r" THEN compileRange(c, thing, capture)
    ELSE compileLiteral(c, IF capture
                           THEN [k |-> "Literal", v |-> <<thing[2]>>, capture |-> TRUE]
                           ELSE Literal(<<thing[2]>>))

\* The for loops of compileSequence and compileList.
RECURSIVE compileEach(_, _, _)
compileEach(c, atoms, i) ==
    IF i > Len(atoms) THEN c ELSE compileEach(compileAtom(c, atoms[i]), atoms, i + 1)

compileSequence(c, sequence) == compileEach(c, sequence.v, 1)

\* compFunc(c): self.cc, or compileRangeOrLiteral with its capture argument
\* bound.
CompCc == [f |-> "cc", capture |-> FALSE]
CompRangeOrLiteral(capture) == [f |-> "compileRangeOrLiteral", capture |-> capture]

applyComp(c, compFunc, choice) ==
    IF compFunc.f = "cc" THEN compileAtom(c, choice)
    ELSE compileRangeOrLiteral(c, compFunc.capture, choice)

\* The second loop of _compileChoices.
rewriteCommits(c, commits) ==
    [c EXCEPT !.code =
        [j \in 1..Len(c.code) |->
            IF \E n \in 1..Len(commits) : commits[n] = j - 1
            THEN gen1("commit", c.pos - (j - 1))
            ELSE c.code[j]]]

\* The first loop of _compileChoices, from the i-th choice on; choiceEnd is
\* an iteration after "size = compFunc(c)", c2 being the compiler compFunc
\* left and at the address of the choice.
RECURSIVE choicesLoop(_, _, _, _, _)
choiceEnd_Short(c2, at, choices, i, commits, compFunc) ==
    choicesLoop(emit(rewrite(c2, at, gen1("choice", (c2.pos - (at + 1)) + 1)),
                     gen0("commit")),
                choices, i + 1, Append(commits, c2.pos), compFunc)

choiceEnd(c2, at, choices, i, commits, compFunc) ==
    choicesLoop(emit(rewrite(c2, at, gen1("choice", (c2.pos - (at + 1)) + 2)),
                     gen0("commit")),
                choices, i + 1, Append(commits, c2.pos), compFunc)

choicesLoop(c, choices, i, commits, compFunc) ==
    IF i > Len(choices) THEN rewriteCommits(c, commits)
    ELSE IF i = Len(choices)
    THEN rewriteCommits(applyComp(c, compFunc, choices[i]), commits)
    ELSE choiceEnd(applyComp(emit(c, gen0("choice")), compFunc, choices[i]),
                   c.pos, choices, i, commits, compFunc)

_compileChoices(c, choices, compFunc) == choicesLoop(c, choices, 1, <<>>, compFunc)

compileExpression(c, expr) == _compileChoices(c, expr.v, CompCc)

compileIdentifier(c, a) ==
    [emit(c, gen0("call")) EXCEPT !.callsites = Append(@, <<a.v, c.pos>>)]

starEnd_Forward(r, at) ==
    emit(rewrite(r.c, at, gen1("choice", r.programSize + 2)),
         gen1("commit", r.programSize + 1))

\* compileStar after "size = self.cc(atom.value)"
starEnd(r, at) ==
    emit(rewrite(r.c, at, gen1("choice", r.programSize + 2)),
         gen1("commit", -(r.programSize + 1)))

compileStar(c, a) == starEnd(cc(emit(c, gen0("choice")), a.v), c.pos)

compilePlus(c, a) == compileStar(cc(c, a.v).c, a)

\* compileQuestion after "size = self.cc(atom.value)"
questionEnd(r, at) ==
    emit(rewrite(r.c, at, gen1("choice", r.programSize + 2)), gen1("commit", 1))

compileQuestion(c, a) == questionEnd(cc(emit(c, gen0("choice")), a.v), c.pos)

compileClass(c, a) ==
    IF Len(a.v) = 1 THEN compileRangeOrLiteral(c, hasCapture(a), a.v[1])
    ELSE _compileChoices(c, a.v, CompRangeOrLiteral(hasCapture(a)))

compileLabel(c, a) == _compileChoices(c, <<a.v, Throw(a.label)>>, CompCc)

compileThrow_Raw(c, a) ==
    LET s == _str(c, a.v) IN emit(s.c, gen1("throw", s.idx))

compileThrow(c, a) ==
    LET s == _str(c, a.v) IN emit(s.c, gen1("throw", s.idx + 2))

compileList(c, lst) ==
    emit(compileEach(emit(c, gen0("open")), lst.v, 1), gen0("close"))

compileAtom(c, a) ==
    CASE a.k = "Literal" -> compileLiteral(c, a)
      [] a.k = "String" -> compileString(c, a)
      [] a.k = "Dot" -> compileAny(c, a)
      [] a.k = "Not" -> compileNot(c, a)
      [] a.k = "And" -> compileAnd(c, a)
      [] a.k = "Star" -> compileStar(c, a)
      [] a.k = "Plus" -> compilePlus(c, a)
      [] a.k = "Question" -> compileQuestion(c, a)
      [] a.k = "Class" -> compileClass(c, a)
      [] a.k = "Identifier" -> compileIdentifier(c, a)
      [] a.k = "Sequence" -> compileSequence(c, a)
      [] a.k = "Expression" -> compileExpression(c, a)
      [] a.k = "Label" -> compileLabel(c, a)
      [] a.k = "Throw" -> compileThrow(c, a)
      [] a.k = "CaptureNode" -> compileCaptureNode(c, a)
      [] a.k = "CaptureBlock" -> compileCaptureBlock(c, a)
      [] a.k = "List" -> compileList(c, a)
      [] OTHER -> [c EXCEPT !.st = "exc"]

\* The loop of genCode over the definitions, from the i-th on: addresses
\* holds the pairs <<identifier, address>> in the order they were assigned
\* (the dict keeps the last one of a name).  definitionEnd is an iteration
\* after 'self.emit("return")', c1 being the compiler it left.
RECURSIVE definitionsLoop(_, _, _, _)
definitionEnd(c1, i, size, addresses, address) ==
    definitionsLoop(c1, i + 1, size + (c1.pos - address),
                    Append(addresses, <<c1.ga[i].name, address>>))

definitionsLoop(c, i, size, addresses) ==
    IF i > Len(c.ga) THEN [c |-> c, size |-> size, addresses |-> addresses]
    ELSE definitionEnd(emit(cc(c, c.ga[i].expr).c, gen0("return")),
                       i, size, addresses, c.pos)

\* addresses[identifier]
addressOf(addresses, identifier) ==
    addresses[CHOOSE i \in 1..Len(addresses) :
                 /\ addresses[i][1] = identifier
                 /\ \A j \in 1..Len(addresses) : addresses[j][1] = identifier => j <= i][2]

callOperand_FromNext(address, cs) == address - (cs + 1)

\* The operand of a patched call: addresses[identifier] - cs.
callOperand(address, cs) == address - cs

\* The name whose call site is at address cs.
calledAt(callsites, cs) ==
    callsites[CHOOSE n \in 1..Len(callsites) : callsites[n][2] = cs][1]

\* The loop patching the call sites.
patchCalls(c, addresses) ==
    [c EXCEPT !.code =
        [j \in 1..Len(c.code) |->
            IF \E n \in 1..Len(c.callsites) : c.callsites[n][2] = j - 1
            THEN gen1("call", callOperand(addressOf(addresses, calledAt(c.callsites, j - 1)),
                                          j - 1))
            ELSE c.code[j]]]

\* genCode from its patching loop on: the compiler as it leaves it, the
\* addresses it assigned, and the program it returns when st = "ok" (every
\* called name has an address, and struct.pack takes every word).
genCodePatch(c5, addresses) ==
    LET bound == \A n \in 1..Len(c5.callsites) :
                     \E i \in 1..Len(addresses) : addresses[i][1] = c5.callsites[n][1]
        c6 == IF bound THEN patchCalls(c5, addresses) ELSE c5
        packs == \A j \in 1..Len(c6.code) : c6.code[j].op < 2 ^ OPERATOR_SIZE
    IN  [st |-> IF c6.st = "ok" /\ bound /\ packs THEN "ok" ELSE "exc",
         c |-> c6,
         code |-> c6.code,
         addresses |-> addresses]

genCodeWrap_Always(c, open) ==
    LET s == _str(c, c.start)
    IN  emit(s.c, gen2(IF open THEN "cap_open" ELSE "cap_close", 0, s.idx))

\* The cap_open before the definitions (open) or the cap_close after them.
genCodeWrap(c, open) ==
    IF ~c.hasCaptureOps THEN c
    ELSE LET s == _str(c, c.start)
         IN  emit(s.c, gen2(IF open THEN "cap_open" ELSE "cap_close", 0, s.idx))

genCodeEnd_Offset(defs, at, distance) ==
    genCodePatch(emit(rewrite(genCodeWrap(defs.c, FALSE),
                              at - 1, gen1("jump", (defs.size + distance) - 1)),
                      gen0("halt")),
                 defs.addresses)

\* genCode after the loop over the definitions, at being the local pos.
genCodeEnd(defs, at, distance) ==
    genCodePatch(emit(rewrite(genCodeWrap(defs.c, FALSE),
                              at - 1, gen1("jump", defs.size + distance)),
                      gen0("halt")),
                 defs.addresses)

\* genCode up to the loop over the definitions.
genCodeBegin(c) == genCodeWrap(emit(emit(c, gen1("call", 2)), gen0("jump")), TRUE)

genCode(c) ==
    genCodeEnd(definitionsLoop(genCodeBegin(c), 1, 0, <<>>),
               c.pos + 2,
               IF c.hasCaptureOps THEN 3 ELSE 2)

\* assemble after genCode: the number of strings, each string after its
\* length (every name of the model is one character long), the number of
\* code words, the code words.
assemble(c) ==
    <<Len(c.strings)>> \o [i \in 1..(2 * Len(c.strings)) |->
                              IF i % 2 = 1 THEN 1 ELSE c.strings[i \div 2]]
        \o <<Len(c.code)>> \o c.code

\* What a Compiler emitted: r is what its genCode left.
emitted(r) ==
    [st |-> r.st, code |-> r.code, strings |-> r.c.strings,
     assembled |-> assemble(r.c)]

(***************************************************************************)
(* The machine the program is written for.  It is not part of src/: its    *)
(* steps follow the instruction table of the specification ("VM            *)
(* Instruction Set", "Failure propagation").  A machine is a record: st is *)
(* "run" while it executes, "halt" when it stopped successfully, "fail"    *)
(* when the match failed, "throw" after a labeled failure, "crash" when    *)
(* there is no instruction to execute (ip outside the code, a pop of an    *)
(* empty stack, an instruction for list input), "overflow" when a stack    *)
(* outgrows MaxStack.  caps is the capture stack: the CAP_OPEN and          *)
(* CAP_CLOSE words executed and not undone, a backtrack frame recording    *)
(* its height (capture_top) and a failure cutting it back; executed holds  *)
(* every CAP_OPEN and CAP_CLOSE word executed, undone or not.  The table   *)
(* gives JUMP an operand and no target: a machine reads it either as an    *)
(* offset from the instruction (as it says of CALL, CHOICE and COMMIT) or, *)
(* when absolute is set, as an address.                                    *)
(***************************************************************************)
\* The signed 27 bits operand of a word.
soperand(w) ==
    IF w.arg >= 2 ^ (OPERATOR_OFFSET - 1) THEN w.arg - 2 ^ OPERATOR_OFFSET ELSE w.arg

\* The two operands of a word.
operand0(w) == w.arg \div (2 ^ S2_OPERAND_SIZE)
operand1(w) == w.arg % (2 ^ S2_OPERAND_SIZE)

VmIdle ==
    [st |-> "idle", ip |-> 0, pos |-> 0, bt |-> <<>>, rs |-> <<>>, caps |-> <<>>,
     executed |-> <<>>, absolute |-> FALSE]
VmNew(absolute) ==
    [st |-> "run", ip |-> 0, pos |-> 0, bt |-> <<>>, rs |-> <<>>, caps |-> <<>>,
     executed |-> <<>>, absolute |-> absolute]

\* Failure propagation.
vmFail(m) ==
    IF m.bt = <<>> THEN [m EXCEPT !.st = "fail"]
    ELSE LET frame == m.bt[Len(m.bt)]
         IN  [m EXCEPT !.ip = frame.ip,
                       !.pos = frame.pos,
                       !.rs = SubSeq(@, 1, frame.rtop),
                       !.caps = SubSeq(@, 1, frame.ctop),
                       !.bt = SubSeq(@, 1, Len(@) - 1)]

\* One instruction of code on input d.
vmStep(code, d, m) ==
    IF m.ip < 0 \/ m.ip >= Len(code) THEN [m EXCEPT !.st = "crash"]
    ELSE LET w == code[m.ip + 1]
             next == [m EXCEPT !.ip = @ + 1]
         IN  CASE w.op = Instructions.halt -> [m EXCEPT !.st = "halt"]
               [] w.op = Instructions.char ->
                    IF m.pos < Len(d) /\ ord(d[m.pos + 1]) = w.arg
                    THEN [next EXCEPT !.pos = @ + 1] ELSE vmFail(m)
               [] w.op = Instructions.any ->
                    IF m.pos < Len(d) THEN [next EXCEPT !.pos = @ + 1] ELSE vmFail(m)
               [] w.op = Instructions.span ->
                    IF /\ m.pos < Len(d)
                       /\ operand0(w) <= ord(d[m.pos + 1])
                       /\ ord(d[m.pos + 1]) <= operand1(w)
                    THEN [next EXCEPT !.pos = @ + 1] ELSE vmFail(m)
               [] w.op = Instructions.choice ->
                    IF Len(m.bt) >= MaxStack THEN [m EXCEPT !.st = "overflow"]
                    ELSE [next EXCEPT !.bt = Append(@, [ip |-> m.ip + soperand(w),
                                                        pos |-> m.pos,
                                                        ctop |-> Len(m.caps),
                                                        rtop |-> Len(m.rs)])]
               [] w.op = Instructions.commit ->
                    IF m.bt = <<>> THEN [m EXCEPT !.st = "crash"]
                    ELSE [m EXCEPT !.ip = @ + soperand(w),
                                   !.bt = SubSeq(@, 1, Len(@) - 1)]
               [] w.op = Instructions.fail -> vmFail(m)
               [] w.op = Instructions.jump ->
                    [m EXCEPT !.ip = IF m.absolute THEN soperand(w) ELSE @ + soperand(w)]
               [] w.op = Instructions.call ->
                    IF Len(m.rs) >= MaxStack THEN [m EXCEPT !.st = "overflow"]
                    ELSE [m EXCEPT !.ip = @ + soperand(w), !.rs = Append(@, m.ip + 1)]
               [] w.op = Instructions.return ->
                    IF m.rs = <<>> THEN [m EXCEPT !.st = "crash"]
                    ELSE [m EXCEPT !.ip = m.rs[Len(m.rs)],
                                   !.rs = SubSeq(@, 1, Len(@) - 1)]
               [] w.op \in {Instructions.cap_open, Instructions.cap_close} ->
                    IF Len(m.executed) >= MaxEvents THEN [m EXCEPT !.st = "overflow"]
                    ELSE [next EXCEPT !.caps = Append(@, w),
                                      !.executed = Append(@, w)]
               [] w.op = Instructions.capchar -> next
               [] w.op = Instructions.throw -> [m EXCEPT !.st = "throw"]
               [] OTHER -> [m EXCEPT !.st = "crash"]

\* No Compiler was built, no program emitted.
NoCompiler == [st |-> "none"]
NoProgram == [st |-> "none"]
NoCall_gen == [args |-> <<>>]

CompileIdle ==
    /\ compiler = NoCompiler
    /\ program = NoProgram
    /\ vm = VmIdle
    /\ sids = <<>>
    /\ again = NoProgram
    /\ gen_call = NoCall_gen

(***************************************************************************)
(* The lexing session: a Parser over a source on which nextt is called     *)
(* again and again (as expand_tokenizer does).                             *)
(***************************************************************************)
LexChars == {"a", "x", "_", "-", "[", "]", "'", "\\", "\n", " ", "<", "#"}

\* Beginnings of sources, completed by up to MaxSrcLen further characters.
Prefixes ==
    { <<>>, <<"[", "_", "a">>, <<"[", "a", "-", "x", "_">>,
      <<"#", " ", "\n", "a">> }

Sources == {pre \o s : pre \in Prefixes, s \in SeqsUpTo(LexChars, MaxSrcLen)}

NoToken == [type |-> "NONE"]
NoResult == [st |-> "none"]

\* A Parser that was never built.
LexIdle ==
    /\ p_code = <<>>
    /\ p_pos = 0
    /\ p_line = 0
    /\ p_token_start = 0
    /\ p_token = NoToken
    /\ p_st = "idle"
    /\ p_result = NoResult
    /\ p_peeked = NoToken

\* Parser.__init__
ParserInit(code) ==
    /\ p_code = code
    /\ p_pos = 0
    /\ p_line = 0
    /\ p_token_start = 0
    /\ p_token = NoToken
    /\ p_st = "new"
    /\ p_result = NoResult
    /\ p_peeked = NoToken

\* A Match that was never built.
MatchIdle ==
    /\ grammar = <<>>
    /\ data = <<>>
    /\ pos = 0
    /\ atom = Dot
    /\ last = [called |-> FALSE]

InitLex ==
    /\ \E code \in Sources : ParserInit(code)
    /\ MatchIdle
    /\ CompileIdle

\* nextt: self.token = self.lex().  A raised exception leaves Parser.token
\* as it was; a lex that never returns leaves nothing to call.
NextT ==
    /\ p_st \in {"new", "ok"}
    /\ LET r == lex(p_code, p_pos, p_line)
       IN  /\ p_st' = r.st
           /\ p_pos' = r.pos
           /\ p_line' = r.line
           /\ p_token_start' = r.token_start
           /\ p_token' = IF r.st = "ok" THEN r.token ELSE p_token
    /\ p_peeked' = NoToken
    /\ UNCHANGED <<p_code, p_result, matchVars, compileVars>>

\* peekt, called between two nextt as parsePrimary does: lex, then pos is put
\* back (not when lex raises).
PeekT ==
    /\ p_st = "ok"
    /\ p_peeked = NoToken
    /\ LET r == lex(p_code, p_pos, p_line)
       IN  /\ p_st' = r.st
           /\ p_pos' = IF r.st = "ok" THEN p_pos ELSE r.pos
           /\ p_line' = r.line
           /\ p_token_start' = r.token_start
           /\ p_peeked' = IF r.st = "ok" THEN r.token ELSE p_peeked
    /\ UNCHANGED <<p_code, p_token, p_result, matchVars, compileVars>>

NextLex == NextT \/ PeekT

SpecLex == InitLex /\ [][NextLex]_vars

(***************************************************************************)
(* Properties of the lexer.                                                *)
(***************************************************************************)
\* C8: lexing is total: every call of nextt returns a token or raises
\* SyntaxError, and a returned token other than END has consumed at least one
\* character of the source, so that calling nextt again and again reaches an
\* END token or a SyntaxError after at most Len(code) + 1 calls, whatever
\* the source (a source that ends inside a literal or a class included).
C8_LexingIsTotal ==
    /\ p_st \in {"new", "ok", "SyntaxError"}
    /\ (p_st = "ok" /\ p_token.type # "END") =>
           (p_token.pos < p_pos /\ p_pos <= Len(p_code))

\* The entries of a class in the order they are written, read from the
\* source at p (just after the opening bracket) up to the closing bracket.
RECURSIVE writtenEntries(_, _)
writtenEntries(code, p) ==
    IF testc(code, p, "]") \/ p >= Len(code) THEN <<>>
    ELSE LET left == lexChar(code, p)
         IN  IF left.st # "ok" THEN <<>>
             ELSE IF testc(code, left.pos, "-")
             THEN LET right == lexChar(code, left.pos + 1)
                  IN  IF right.st # "ok" THEN <<>>
                      ELSE <<ClassRange(left.c, right.c)>>
                               \o writtenEntries(code, right.pos)
             ELSE <<ClassChar(left.c)>> \o writtenEntries(code, left.pos)

IsRangeEntry(e) == e[1] = "r"
IsCharEntry(e) == e[1] = "c"

LexedClass == p_st = "ok" /\ p_token.type = "CLASS"

\* C9 (as stated): the payload of a CLASS token lists the entries, single
\* characters and ranges alike, in the order they are written.
C9_ClassInWrittenOrder ==
    LexedClass =>
        p_token.value = Lst(writtenEntries(p_code, p_token.pos + 1))

\* C9 (amended): the payload of a CLASS token lists the ranges in the order
\* they are written, followed by the single characters in the order they
\* are written.
C9_ClassRangesThenChars ==
    LexedClass =>
        LET written == writtenEntries(p_code, p_token.pos + 1)
        IN  p_token.value = Lst(SelectSeq(written, IsRangeEntry)
                                    \o SelectSeq(written, IsCharEntry))

\* A class whose single character is written before its range was lexed.
C9_Witness ==
    /\ LexedClass
    /\ p_code = <<"[", "_", "a", "-", "x", "]">>
    /\ p_token.value = Lst(<<ClassRange("a", "x"), ClassChar("_")>>)

(***************************************************************************)
(* The matching session: a Match object over a grammar and an input, on    *)
(* which matchAtom is called again and again (as test_match does), with    *)
(* the node under test or with Dot().                                      *)
(***************************************************************************)
\* A <- 'a'      B <- 'a' B / 'b'      L <- L 'a' / 'a'
MatchGrammar ==
    << Definition("A", Expression(<<Literal(<<"a">>)>>)),
       Definition("B", Expression(<<Sequence(<<Literal(<<"a">>), Identifier("B")>>),
                                    Literal(<<"b">>)>>)),
       Definition("L", Expression(<<Sequence(<<Identifier("L"), Literal(<<"a">>)>>),
                                    Literal(<<"a">>)>>)) >>

Leaves ==
    { Literal(<<"a">>), Literal(<<"a", "b">>), Literal(<<"b", "a">>), Literal(<<>>),
      Dot, Class(<<ClassChar("b")>>), Class(<<ClassRange("a", "b")>>),
      Class(<<ClassChar("b"), ClassRange("a", "a")>>), Class(<<>>),
      Identifier("A"), Identifier("B"), Identifier("L"), Identifier("U") }

SmallLeaves ==
    { Literal(<<"a">>), Literal(<<"a", "b">>), Dot, Class(<<ClassChar("b")>>),
      Identifier("B") }

Unary(S) ==
    {Plus(x) : x \in S} \cup {Star(x) : x \in S} \cup {Not(x) : x \in S}
        \cup {Question(x) : x \in S}

Pairs(S, T) ==
    {Sequence(<<x, y>>) : x \in S, y \in T} \cup {Expression(<<x, y>>) : x \in S, y \in T}

Level1 ==
    Unary(Leaves) \cup {And(x) : x \in Leaves} \cup Pairs(SmallLeaves, SmallLeaves)
        \cup {Expression(<<x>>) : x \in Leaves}

Level2 ==
    Unary(Level1)
        \cup Pairs(Unary(SmallLeaves), SmallLeaves)
        \cup Pairs(SmallLeaves, Unary(SmallLeaves))
        \cup {Sequence(<<x, Not(Dot), y>>) : x \in SmallLeaves, y \in Unary(SmallLeaves)}
        \cup {Sequence(<<Literal(<<"a">>), And(x)>>) : x \in SmallLeaves}

Atoms == Leaves \cup Level1 \cup Level2

NoCall == [called |-> FALSE]
Call(a, p0, r) == [called |-> TRUE, a |-> a, p0 |-> p0, r |-> r]

\* A call that never returns leaves nothing to call afterwards.
Hung == last.called /\ last.r.st = "loop"

InitMatch ==
    /\ LexIdle
    /\ CompileIdle
    /\ grammar = MatchGrammar
    /\ data \in SeqsUpTo(DataChars, MaxLen)
    /\ pos = 0
    /\ atom \in Atoms
    /\ last = NoCall

\* e.matchAtom(atom)
MatchAtom ==
    /\ ~Hung
    /\ LET r == matchAtom(grammarAsDict(grammar), data, atom, pos, MaxDepth)
       IN  /\ pos' = r.p
           /\ last' = Call(atom, pos, r)
    /\ UNCHANGED <<grammar, data, atom, lexVars, compileVars>>

\* e.matchAtom(Dot())
MatchDot ==
    /\ ~Hung
    /\ LET r == matchAtom(grammarAsDict(grammar), data, Dot, pos, MaxDepth)
       IN  /\ pos' = r.p
           /\ last' = Call(Dot, pos, r)
    /\ UNCHANGED <<grammar, data, atom, lexVars, compileVars>>

NextMatch == MatchAtom \/ MatchDot

SpecMatch == InitMatch /\ [][NextMatch]_vars

(***************************************************************************)
(* Properties of the direct matcher, stated on the last matchAtom call.    *)
(***************************************************************************)
\* What matchAtom(x) does from cursor p of the session's input.
Sub(x, p) == matchAtom(grammarAsDict(grammar), data, x, p, MaxDepth)

Returned == last.called /\ last.r.st = "ok"
ReturnedFrom(kind) == Returned /\ last.a.k = kind

\* C2: a matchAtom call that returns matched = False leaves the cursor pos
\* exactly where it was when the call began, whatever the node and however
\* deeply it nests.
C2_FailureRestoresPos ==
    (Returned /\ ~last.r.m) => pos = last.p0

\* A Sequence nested in a Plus failed after its first element had matched and
\* moved the cursor.
C2_Witness ==
    /\ ReturnedFrom("Plus")
    /\ ~last.r.m
    /\ last.a.v.k = "Sequence"
    /\ Sub(last.a.v.v[1], last.p0).m
    /\ Sub(last.a.v.v[1], last.p0).p > last.p0

\* C3: Literal(s) at cursor p matches if and only if the input from p begins
\* with the whole of s; a match moves the cursor by len(s) and has value s, a
\* failure leaves the cursor at p.
C3_LiteralIsAtomic ==
    ReturnedFrom("Literal") =>
        LET s == last.a.v
            begins == /\ last.p0 + Len(s) <= Len(data)
                      /\ SubSeq(data, last.p0 + 1, last.p0 + Len(s)) = s
        IN  /\ last.r.m <=> begins
            /\ last.r.m => (pos = last.p0 + Len(s) /\ last.r.v = Str(s))
            /\ ~last.r.m => pos = last.p0

\* C4: Not(x) never moves the cursor; it returns (True, None) when x fails at
\* the cursor and (False, None) when x matches there.
C4_NotKeepsCursor ==
    ReturnedFrom("Not") =>
        /\ pos = last.p0
        /\ last.r.v = None
        /\ last.r.m = ~Sub(last.a.v, last.p0).m

\* Not(x) was called where x matches and consumes input.
C4_Witness ==
    /\ ReturnedFrom("Not")
    /\ ~last.r.m
    /\ Sub(last.a.v, last.p0).p > last.p0

\* C5: the matcher evaluates And(x) as Not(Not(x)): it ends as Not(Not(x))
\* does, matching exactly when x matches at the cursor, without moving it.
C5_AndIsNotNot ==
    (last.called /\ last.a.k = "And") =>
        LET nn == Sub(Not(Not(last.a.v)), last.p0)
        IN  /\ last.r.st = nn.st
            /\ last.r.m = nn.m
            /\ pos = nn.p

\* The cursor after n successive matches of x from p.
RECURSIVE posAfter(_, _, _)
posAfter(x, p, n) == IF n = 0 THEN p ELSE Sub(x, posAfter(x, p, n - 1)).p

\* r is (True, the values of the successive matches of x from p0, up to the
\* first failure of x), and leaves the cursor where that failure left it.
IsGreedyRepetition(x, p0, r) ==
    /\ r.m
    /\ r.v.t = "list"
    /\ LET n == Len(r.v.l)
       IN  /\ \A i \in 1..n :
                LET ri == Sub(x, posAfter(x, p0, i - 1))
                IN  ri.st = "ok" /\ ri.m /\ ri.v = r.v.l[i]
           /\ LET rf == Sub(x, posAfter(x, p0, n))
              IN  rf.st = "ok" /\ ~rf.m /\ r.p = rf.p

\* x never matches without moving the cursor, wherever in the input it is tried.
AlwaysAdvances(x) ==
    \A q \in 0..Len(data) :
        LET rx == Sub(x, q) IN (rx.st = "ok" /\ rx.m) => rx.p > q

RECURSIVE subValues(_, _, _)
subValues(xs, i, p) ==
    IF i > Len(xs) THEN <<>>
    ELSE LET r == Sub(xs[i], p) IN <<r.v>> \o subValues(xs, i + 1, r.p)

NotNull(val) == val # None

\* C7: the value of a matching Sequence holds, in order, the value of every
\* sub-match whose value is not null and omits only the null ones (a single
\* remaining value is returned unwrapped).
C7_SequenceKeepsNonNull ==
    (ReturnedFrom("Sequence") /\ last.r.m) =>
        last.r.v = fio(Lst(SelectSeq(subValues(last.a.v, 1, last.p0), NotNull)))

(***************************************************************************)
(* The compiling session: a grammar is handed to Compiler and compiled,    *)
(* the program is run by the machine on an input, and the same grammar and *)
(* input are handed to Match (as test_runner_compile and test_runner_match *)
(* do).                                                                    *)
(***************************************************************************)
La == Literal(<<"a">>)
Lb == Literal(<<"b">>)
Lab == Literal(<<"a", "b">>)

CompileLeaves ==
    { La, Lab, Literal(<<>>), Dot, Class(<<>>), Class(<<ClassChar("b")>>),
      Class(<<ClassRange("a", "b")>>),
      Class(<<ClassRange("a", "a"), ClassChar("b"), ClassChar("a")>>) }

\* Bodies of a grammar of one rule, S.
Bodies1 ==
    CompileLeaves
        \cup Unary(CompileLeaves)
        \cup {And(x) : x \in CompileLeaves}
        \cup Pairs({La, Lab, Dot}, {La, Lb, Dot})
        \cup {Expression(<<La, Lb, Dot>>), Sequence(<<La, Not(Dot)>>),
              Sequence(<<Star(La), Lb>>), Star(Expression(<<La, Lb>>)),
              Not(Not(La)), And(Sequence(<<La, Lb>>)), Star(Question(La)),
              Plus(Expression(<<La, Lb>>)), Plus(Star(La)),
              Label("f", Label("g", La)), CaptureBlock(Label("f", La)),
              Sequence(<<CaptureNode(Identifier("S")), Label("f", Lb)>>),
              Identifier("S"), Sequence(<<La, Identifier("S")>>),
              Expression(<<Sequence(<<La, Identifier("S")>>), Lb>>),
              Expression(<<Sequence(<<Identifier("S"), La>>), La>>),
              Identifier("U"),
              CaptureBlock(La), CaptureBlock(Sequence(<<La, La>>)),
              CaptureBlock(Star(Class(<<ClassRange("a", "b")>>))),
              Sequence(<<La, CaptureBlock(Dot)>>),
              Expression(<<CaptureBlock(La), Lb>>),
              Sequence(<<Not(CaptureBlock(La)), Dot>>),
              CaptureNode(Identifier("S")),
              CaptureBlock(Identifier("S")),
              Not(CaptureBlock(La)), CaptureBlock(Not(La)),
              Not(CaptureNode(Identifier("S"))),
              Label("f", La), Sequence(<<La, Label("f", Lb)>>),
              String("k"), List(<<La>>), CaptureBlock(String("k"))}

\* Bodies of S and of A in a grammar of two rules.
BodiesS ==
    { Identifier("A"), Sequence(<<Identifier("A"), Lb>>), Star(Identifier("A")),
      Expression(<<Identifier("A"), Lb>>), Not(Identifier("A")),
      Sequence(<<La, Identifier("A"), Identifier("A")>>),
      CaptureBlock(Identifier("A")), CaptureNode(Identifier("A")),
      Sequence(<<CaptureBlock(La), Identifier("A")>>),
      Sequence(<<CaptureBlock(Identifier("A")), Identifier("A")>>), Lab,
      Sequence(<<La, CaptureBlock(Identifier("A"))>>) }

BodiesA ==
    { La, Lab, Dot, Star(La), Class(<<ClassRange("a", "b")>>),
      Sequence(<<La, Identifier("S")>>), Expression(<<Sequence(<<La, Identifier("A")>>), Lb>>),
      Sequence(<<La, Question(Identifier("A"))>>), CaptureBlock(Lb) }

Rule(n, x) == Definition(n, Expression(<<x>>))

Grammars ==
    {<<Rule("S", x)>> : x \in Bodies1}
        \cup {<<Rule("S", x), Rule("A", y)>> : x \in BodiesS, y \in BodiesA}
        \cup {<<Rule("S", x), Rule("S", y)>> : x \in {La, Identifier("S")}, y \in {Lb, Lab}}
        \cup {<<Rule("A", x), Rule("S", Identifier("A")), Rule("A", y)>> :
                  x \in {La, Dot}, y \in {Lb, Sequence(<<La, Identifier("S")>>)}}

InitCompile ==
    /\ LexIdle
    /\ CompileIdle
    /\ grammar \in Grammars
    /\ data \in SeqsUpTo(DataChars, MaxLen)
    /\ pos = 0
    /\ atom = Dot
    /\ last = NoCall

\* c = Compiler(grammar): markCaptures writes its marks on the grammar it is
\* given.
NewCompiler ==
    /\ compiler = NoCompiler
    /\ compiler' = Compiler(grammar)
    /\ grammar' = compiler'.ga
    /\ UNCHANGED <<data, pos, atom, last, program, vm, sids, again, gen_call, lexVars>>

\* c.genCode()
GenCode ==
    /\ compiler.st = "ok"
    /\ program = NoProgram
    /\ LET r == genCode(compiler)
       IN  /\ compiler' = r.c
           /\ program' = [st |-> r.st, code |-> r.code, addresses |-> r.addresses]
    /\ UNCHANGED <<matchVars, vm, sids, again, gen_call, lexVars>>

\* The machine is started on the program and the input.
VmStart ==
    /\ program.st = "ok"
    /\ vm.st = "idle"
    /\ \E absolute \in BOOLEAN : vm' = VmNew(absolute)
    /\ UNCHANGED <<matchVars, compiler, program, sids, again, gen_call, lexVars>>

\* The machine executes one instruction.
VmStep ==
    /\ vm.st = "run"
    /\ vm' = vmStep(program.code, data, vm)
    /\ UNCHANGED <<matchVars, compiler, program, sids, again, gen_call, lexVars>>

\* Match(grammar, start, data).run(), start being the first rule as in
\* Compiler.
Run ==
    /\ ~last.called
    /\ LET start == grammar[1].name
           g == grammarAsDict(grammar)
           r == matchAtom(g, data, g[start], pos, MaxDepth)
       IN  /\ pos' = r.p
           /\ last' = Call(g[start], pos, r)
    /\ UNCHANGED <<grammar, data, atom, compileVars, lexVars>>

NextCompile == NewCompiler \/ GenCode \/ VmStart \/ VmStep \/ Run

SpecCompile == InitCompile /\ [][NextCompile]_vars

(***************************************************************************)
(* Properties of the emitted program.                                      *)
(***************************************************************************)
\* genCode returned a program.
Emitted == program.st = "ok"

\* The addresses of the CALL instructions of the program.
CallAddresses ==
    {a \in 0..(Len(program.code) - 1) : program.code[a + 1].op = Instructions.call}

\* a + k for the CALL at address a with operand k.
callTarget(a) == a + soperand(program.code[a + 1])

\* The addresses genCode assigned: the first instruction of each region.
regionStarts == {program.addresses[i][2] : i \in 1..Len(program.addresses)}

\* The CALL at a was emitted by compileIdentifier.
IsCallSite(a) == \E n \in 1..Len(compiler.callsites) : compiler.callsites[n][2] = a

codeLen == Len(program.code)
regionsFrom(wrapped) == IF wrapped THEN 3 ELSE 2
regionsEnd(wrapped) == IF wrapped THEN codeLen - 2 ELSE codeLen - 1

\* The first address after the i-th region.
regionEnd(i, wrapped) ==
    IF i = Len(program.addresses) THEN regionsEnd(wrapped)
    ELSE program.addresses[i + 1][2]

\* The shape of the program: CALL 2, JUMP, one region per Definition in
\* source order, each ending in its only RETURN, HALT last, and the
\* CAP_OPEN 0 sid(start) / CAP_CLOSE 0 sid(start) pair exactly when wrapped.
HasShape(wrapped) ==
    /\ codeLen >= 3
    /\ program.code[1] = gen1("call", 2)
    /\ program.code[2].op = Instructions.jump
    /\ program.code[codeLen].op = Instructions.halt
    /\ Len(program.addresses) = Len(grammar)
    /\ program.addresses[1][2] = regionsFrom(wrapped)
    /\ \A i \in 1..Len(grammar) :
          /\ program.addresses[i][1] = grammar[i].name
          /\ program.addresses[i][2] < regionEnd(i, wrapped)
          /\ \A a \in program.addresses[i][2]..(regionEnd(i, wrapped) - 1) :
                (program.code[a + 1].op = Instructions.return)
                    <=> (a = regionEnd(i, wrapped) - 1)
    /\ IF wrapped
       THEN /\ program.code[3] =
                  gen2("cap_open", 0, index(compiler.strings, compiler.start))
            /\ program.code[codeLen - 1] =
                  gen2("cap_close", 0, index(compiler.strings, compiler.start))
       ELSE program.code[codeLen - 1].op = Instructions.return

\* The grammar holds a CaptureBlock or a CaptureNode, anywhere / outside
\* every Not.
HasCaptureOperator ==
    walker(grammar, roots(grammar), {}, {"CaptureBlock", "CaptureNode"}) # <<>>
HasCaptureOperatorOutsideNot ==
    walker(grammar, roots(grammar), {"Not"}, {"CaptureBlock", "CaptureNode"}) # <<>>

jumpLanding(absolute) ==
    vmStep(program.code, data, [VmNew(absolute) EXCEPT !.ip = 1]).ip

\* The prologue JUMP lands on HALT, or on the CAP_CLOSE before HALT when the
\* regions are wrapped.
JumpLandsOnEpilogue(absolute) ==
    /\ jumpLanding(absolute) < codeLen
    /\ IF HasCaptureOperatorOutsideNot
       THEN /\ jumpLanding(absolute) = codeLen - 2
            /\ program.code[jumpLanding(absolute) + 1].op = Instructions.cap_close
       ELSE /\ jumpLanding(absolute) = codeLen - 1
            /\ program.code[jumpLanding(absolute) + 1].op = Instructions.halt

topBody == grammar[1].expr.v[1]

TopIsChoice == Emitted /\ topBody.k \in {"Expression", "Class"}

\* The number of instructions the i-th entry of the choice x compiles to.
altSize(x, i) ==
    applyComp([compiler EXCEPT !.pos = 0, !.code = <<>>, !.capture = FALSE],
              IF x.k = "Class" THEN CompRangeOrLiteral(hasCapture(x)) ELSE CompCc,
              x.v[i]).pos

\* The address the i-th entry's part starts at (its CHOICE, or the entry
\* itself when it is the last one); i = Len(x.v) + 1 gives the address
\* after the last entry.
RECURSIVE altStart(_, _)
altStart(x, i) ==
    IF i = 1 THEN program.addresses[1][2]
    ELSE altStart(x, i - 1) + altSize(x, i - 1) + (IF i - 1 < Len(x.v) THEN 2 ELSE 0)

\* The address of the RETURN of the first region.
topReturn == regionEnd(1, HasCaptureOperatorOutsideNot) - 1

\* x is laid out with a CHOICE before and a COMMIT after each entry but the
\* last: each CHOICE targets the next entry's part, each COMMIT the
\* instruction after the last entry, which is where the region's RETURN is.
ChoiceLayout(x) ==
    /\ altStart(x, Len(x.v) + 1) = topReturn
    /\ \A i \in 1..(Len(x.v) - 1) :
          LET choiceAt == altStart(x, i)
              commitAt == altStart(x, i) + altSize(x, i) + 1
          IN  /\ program.code[choiceAt + 1].op = Instructions.choice
              /\ choiceAt + soperand(program.code[choiceAt + 1]) = altStart(x, i + 1)
              /\ program.code[commitAt + 1].op = Instructions.commit
              /\ commitAt + soperand(program.code[commitAt + 1]) = topReturn

\* The CHOICE and COMMIT instructions of x's own: what the region holds
\* besides the entries' code and the RETURN.
ownInstructions(x) ==
    LET RECURSIVE sum(_)
        sum(i) == IF i = 0 THEN 0 ELSE sum(i - 1) + altSize(x, i)
    IN  (topReturn - program.addresses[1][2]) - sum(Len(x.v))

\* C13 (as stated): an Expression or Class with n entries compiles to n-1
\* CHOICE and n-1 COMMIT of its own, each CHOICE targeting the first
\* instruction of the next alternative, every COMMIT the instruction after
\* the last alternative, the last alternative being emitted bare.
C13_ChoiceOfNEntries ==
    TopIsChoice =>
        /\ ownInstructions(topBody) = 2 * (Len(topBody.v) - 1)
        /\ ChoiceLayout(topBody)

\* C13 (amended): the same for n >= 1; a Class without entries compiles to
\* no instruction at all.
C13_ChoiceOfOneOrMoreEntries ==
    TopIsChoice =>
        IF Len(topBody.v) = 0
        THEN topReturn = program.addresses[1][2]
        ELSE /\ ownInstructions(topBody) = 2 * (Len(topBody.v) - 1)
             /\ ChoiceLayout(topBody)

\* The program of a choice of three entries.
C13_Witness ==
    /\ TopIsChoice
    /\ Len(topBody.v) = 3
    /\ ownInstructions(topBody) = 4

(***************************************************************************)
(* The code of a Not, read off the region of the first rule when the body  *)
(* of that rule is Not(x) (capture flag unset on entry) or                 *)
(* CaptureBlock(Not(x)) (capture flag set on entry).                       *)
(***************************************************************************)
TopIsNot ==
    /\ Emitted
    /\ \/ topBody.k = "Not"
       \/ topBody.k = "CaptureBlock" /\ topBody.v.k = "Not"

\* The addresses of the code of that Not, from its CHOICE to its FAIL.
notSpan ==
    IF topBody.k = "Not" THEN program.addresses[1][2]..(topReturn - 1)
    ELSE (program.addresses[1][2] + 1)..(topReturn - 2)

\* C14: the code emitted for Not(x) holds, from its CHOICE to its FAIL, no
\* CAPCHAR, CAP_OPEN or CAP_CLOSE, whatever x contains and whatever the
\* capture flag was on entry.
C14_NoCaptureInsideNot ==
    TopIsNot =>
        /\ program.code[(CHOOSE a \in notSpan : \A b \in notSpan : a <= b) + 1].op
              = Instructions.choice
        /\ program.code[(CHOOSE a \in notSpan : \A b \in notSpan : a >= b) + 1].op
              = Instructions.fail
        /\ \A a \in notSpan :
              program.code[a + 1].op \notin
                  {Instructions.capchar, Instructions.cap_open, Instructions.cap_close}

(***************************************************************************)
(* CAP_OPEN and CAP_CLOSE, in the program and as the machine executes      *)
(* them.                                                                   *)
(***************************************************************************)
\* words, read from the i-th on with the CAP_OPEN words in stack still
\* open, is a properly nested sequence of CAP_OPEN / CAP_CLOSE pairs with
\* identical operands (other words are passed over).
RECURSIVE nested(_, _, _)
nested(words, i, stack) ==
    IF i > Len(words) THEN stack = <<>>
    ELSE IF words[i].op = Instructions.cap_open
    THEN nested(words, i + 1, Append(stack, words[i]))
    ELSE IF words[i].op = Instructions.cap_close
    THEN /\ stack # <<>>
         /\ stack[Len(stack)].arg = words[i].arg
         /\ nested(words, i + 1, SubSeq(stack, 1, Len(stack) - 1))
    ELSE nested(words, i + 1, stack)

\* The machine stopped on HALT.
Halted == Emitted /\ vm.st = "halt"

C1_MatcherAgreesWithVM ==
    (last.called /\ last.r.st = "ok" /\ vm.st \in {"halt", "fail"}) =>
        /\ last.r.m <=> (vm.st = "halt")
        /\ last.r.m => last.r.p = vm.pos

(***************************************************************************)
(* The string table session: a Compiler on which _str is called with one   *)
(* string after the other, before and after genCode makes its own calls,   *)
(* and a second Compiler built on the same Grammar object.                 *)
(***************************************************************************)
MaxCalls == 4

StrValues == {"S", "A", "z"}

StrGrammars ==
    { <<Rule("S", La)>>,
      <<Rule("S", Label("A", String("S")))>>,
      <<Rule("S", Sequence(<<CaptureNode(Identifier("A")), Label("f", String("k"))>>)),
        Rule("A", La)>>,
      <<Rule("S", CaptureBlock(Identifier("A"))), Rule("A", Sequence(<<La, La>>))>>,
      <<Rule("S", Sequence(<<CaptureBlock(Star(Identifier("A"))), Not(Identifier("A"))>>)),
        Rule("A", Expression(<<Lab, Class(<<ClassRange("a", "b"), ClassChar("_")>>)>>))>> }

InitStr ==
    /\ LexIdle
    /\ \E g \in StrGrammars :
          /\ compiler = Compiler(g)
          /\ grammar = compiler.ga
    /\ data = <<>>
    /\ pos = 0
    /\ atom = Dot
    /\ last = NoCall
    /\ program = NoProgram
    /\ vm = VmIdle
    /\ sids = <<>>
    /\ again = NoProgram
    /\ gen_call = NoCall_gen

\* c._str(value)
StrCall ==
    /\ Len(sids) < MaxCalls
    /\ \E value \in StrValues :
          /\ compiler' = _str(compiler, value).c
          /\ sids' = Append(sids, <<value, _str(compiler, value).idx>>)
    /\ UNCHANGED <<matchVars, program, vm, again, gen_call, lexVars>>

\* A second Compiler(grammar).genCode() on the same Grammar object, which
\* carries the marks the first markCaptures left (as cc of test_compile
\* does).
Again ==
    /\ program.st = "ok"
    /\ again = NoProgram
    /\ again' = emitted(genCode(Compiler(grammar)))
    /\ grammar' = Compiler(grammar).ga
    /\ UNCHANGED <<data, pos, atom, last, compiler, program, vm, sids, gen_call, lexVars>>

NextStr == StrCall \/ GenCode \/ Again

SpecStr == InitStr /\ [][NextStr]_vars

\* The strings the instructions of the program name: the rule a CAP_OPEN /
\* CAP_CLOSE 0 sid is for, the atom of an ATOM, the label of a THROW.
sidOperands ==
    {operand1(program.code[a]) : a \in {b \in 1..Len(program.code) :
        /\ program.code[b].op \in {Instructions.cap_open, Instructions.cap_close}
        /\ operand0(program.code[b]) = 0}}
    \cup {program.code[a].arg : a \in {b \in 1..Len(program.code) :
              program.code[b].op = Instructions.atom}}
    \cup {program.code[a].arg - 2 : a \in {b \in 1..Len(program.code) :
              program.code[b].op = Instructions.throw}}

\* The strings the grammar hands to _str: the start rule when the regions
\* are wrapped, the rules of the CaptureNodes, the Strings, the labels.
namedStrings ==
    LET nodes(kind) == walker(grammar, roots(grammar), {}, {kind})
        values(kind) == {At(grammar, nodes(kind)[i]) : i \in 1..Len(nodes(kind))}
    IN  (IF HasCaptureOperatorOutsideNot THEN {grammar[1].name} ELSE {})
        \cup {x.v.v : x \in values("CaptureNode")}
        \cup {x.v : x \in values("String")}
        \cup {x.label : x \in values("Label")}

\* The string table has no duplicate, every index _str returned denotes
\* the string it was returned for, and the sid operands of an emitted
\* program index the strings the grammar names.
StringTableDenotes ==
    /\ \A i, j \in 1..Len(compiler.strings) :
          compiler.strings[i] = compiler.strings[j] => i = j
    /\ \A n \in 1..Len(sids) :
          /\ sids[n][2] < Len(compiler.strings)
          /\ compiler.strings[sids[n][2] + 1] = sids[n][1]
    /\ Emitted =>
          /\ \A sid \in sidOperands : sid < Len(compiler.strings)
          /\ {compiler.strings[sid + 1] : sid \in sidOperands} = namedStrings

\* A step leaves the entries of the table where they are and puts the new
\* ones after them.
StringTableGrowsAtEnd ==
    /\ Len(compiler.strings) <= Len(compiler'.strings)
    /\ SubSeq(compiler'.strings, 1, Len(compiler.strings)) = compiler.strings

\* C16: after any sequence of _str calls the string table has no duplicate
\* and lists the strings in the order of their first use, every index
\* returned still denotes the string it was returned for after every later
\* insertion, and the sid operands of an emitted program index their
\* strings in the final table.
C16_StringTableIsStable == []StringTableDenotes /\ [][StringTableGrowsAtEnd]_vars

\* A program whose instructions name four strings, emitted between _str
\* calls, one of them for a string genCode then reused and one inserted
\* after.
C16_Witness ==
    /\ Emitted
    /\ Cardinality(sidOperands) = 4
    /\ Len(compiler.strings) > 4
    /\ \E n \in 1..Len(sids) : sids[n][2] = Len(compiler.strings) - 1
    /\ \E n \in 1..Len(sids) : sids[n][1] = "A" /\ sids[n][2] = 0

(***************************************************************************)
(* Compiling the same Grammar object twice.                                *)
(***************************************************************************)
\* Some terminal of the grammar carries a capture mark.
HasMark ==
    LET found == walker(grammar, roots(grammar), {}, Terminals)
    IN  \E i \in 1..Len(found) : hasCapture(At(grammar, found[i]))

\* C17: a second fresh Compiler, run as the first was (no _str call from
\* outside) on the AST after the first has left its capture marks on it,
\* emits the same code and the same string table, hence the same assembled
\* bytes.
C17_CompilationIsRepeatable ==
    (again # NoProgram /\ sids = <<>>) =>
        /\ again.st = "ok"
        /\ again.code = program.code
        /\ again.strings = compiler.strings
        /\ again.assembled = assemble(compiler)

\* A grammar compiled twice, the first Compiler having left marks.
C17_Witness ==
    /\ again # NoProgram
    /\ again.st = "ok"
    /\ sids = <<>>
    /\ HasMark
    /\ Len(again.strings) > 0

\* The index of the last Definition of the name n.
lastDefinition(n) ==
    CHOOSE i \in 1..Len(grammar) :
        /\ grammar[i].name = n
        /\ \A j \in 1..Len(grammar) : grammar[j].name = n => j <= i

HasDuplicateRule ==
    \E i, j \in 1..Len(grammar) : i < j /\ grammar[i].name = grammar[j].name

\* The first instruction of the region the entry CALL at 0 runs (a CAP_OPEN
\* at its target comes before the region).
entryRegion ==
    IF program.code[callTarget(0) + 1].op = Instructions.cap_open
    THEN callTarget(0) + 1
    ELSE callTarget(0)

\* The matcher reads the later definition of every name, the start rule
\* included.
MatcherRunsLaterDefinition ==
    /\ \A i \in 1..Len(grammar) :
          grammarAsDict(grammar)[grammar[i].name]
              = grammar[lastDefinition(grammar[i].name)].expr
    /\ last.called => last.a = grammar[lastDefinition(grammar[1].name)].expr

\* Every patched CALL targets the region of the later definition of the name
\* it calls.
CallsRunLaterDefinition ==
    \A a \in CallAddresses \ {0} :
        callTarget(a)
            = program.addresses[lastDefinition(calledAt(compiler.callsites, a))][2]

\* C20: when a grammar defines a rule name more than once, the matcher
\* evaluates the later body for every reference and for the start rule, and
\* in the program every CALL to the name, the entry CALL at 0 included, runs
\* the region of the later definition.
C20_LaterDefinitionOverrides ==
    Emitted /\ HasDuplicateRule =>
        /\ MatcherRunsLaterDefinition
        /\ CallsRunLaterDefinition
        /\ entryRegion = program.addresses[lastDefinition(grammar[1].name)][2]

(***************************************************************************)
(* The instruction word session: gen is called with an opcode and the      *)
(* operand values the compiler passes for it, and the word is decoded with *)
(* OP_MASK and the operand readers.                                        *)
(***************************************************************************)
\* gen(*args), args being the instruction name followed by arg0 and arg1 when
\* they are given.
gen(args) ==
    IF Len(args) = 3 THEN gen2(args[1], args[2], args[3])
    ELSE IF Len(args) = 2 THEN gen1(args[1], args[2])
    ELSE gen0(args[1])

\* OP_MASK(c): bits 31..27 of the word.
OP_MASK(c) == c.op % (2 ^ OPERATOR_SIZE)

\* The low 27 bits, and the two fields they split into.
UOPERAND0(c) == c.arg
UOPERAND1(c) == UOPERAND0(c) \div (2 ^ S2_OPERAND_SIZE)
UOPERAND2(c) == UOPERAND0(c) % (2 ^ S2_OPERAND_SIZE)

\* Code points ord() hands to gen: 'a', 'e', U+07FF, U+0800, the euro sign,
\* U+7FFF, U+FFFF, U+1F600 and the last code point.
CharPoints == {97, 101, 2047, 2048, 8364, 32767, 65535, 128512, 1114111}
SpanLow == {97, 101, 2047, 2048, 8364, 32767}
SpanHigh == {97, 101, 2047, 8364, 65535, 128512}

\* Sizes and distances between two addresses of a program, ids of strings.
Offsets == {-4096, -7, -2, -1, 0, 1, 2, 3, 7, 4096}
StringIds == {0, 1, 2, 4095}

GenCalls ==
    {<<name>> : name \in DOMAIN Instructions}
        \cup {<<"char", cp>> : cp \in CharPoints}
        \cup {<<name, o>> : name \in {"choice", "commit", "jump", "call"}, o \in Offsets}
        \cup {<<name, sid + 2>> : name \in {"throw"}, sid \in StringIds}
        \cup {<<name, sid>> : name \in {"atom"}, sid \in StringIds}
        \cup {<<"span", lo, hi>> : lo \in SpanLow, hi \in SpanHigh}
        \cup {<<name, t, sid>> : name \in {"cap_open", "cap_close"}, t \in {0, 1},
                                 sid \in StringIds}

InitGen ==
    /\ MatchIdle
    /\ LexIdle
    /\ compiler = NoCompiler
    /\ program = NoProgram
    /\ vm = VmIdle
    /\ sids = <<>>
    /\ again = NoProgram
    /\ gen_call = NoCall_gen

\* One call of gen.
Gen ==
    /\ \E args \in GenCalls : gen_call' = [args |-> args, w |-> gen(args)]
    /\ UNCHANGED <<matchVars, lexVars, compiler, program, vm, sids, again>>

NextGen == Gen

SpecGen == InitGen /\ [][NextGen]_vars

\* C18: whatever opcode and operands gen is called with, the word it returns
\* fits in 32 bits, its bits 31..27 are the ordinal of the opcode, and the
\* operands are read back unchanged: a single operand as a signed 27 bits
\* value (the low 27 bits are the value modulo 2^27, the value being within
\* the signed range), two operands as the field above bit 16 and the 16 bits
\* field.
C18_GenRoundTrips ==
    gen_call # NoCall_gen =>
        /\ gen_call.w.op < 2 ^ OPERATOR_SIZE
        /\ OP_MASK(gen_call.w) = Instructions[gen_call.args[1]]
        /\ Len(gen_call.args) = 2 =>
               /\ gen_call.args[2] >= -(2 ^ (OPERATOR_OFFSET - 1))
               /\ gen_call.args[2] < 2 ^ (OPERATOR_OFFSET - 1)
               /\ UOPERAND0(gen_call.w) = gen_call.args[2] % (2 ^ OPERATOR_OFFSET)
        /\ Len(gen_call.args) = 3 =>
               /\ UOPERAND1(gen_call.w) = gen_call.args[2]
               /\ UOPERAND2(gen_call.w) = gen_call.args[3]

(***************************************************************************)
(* The parser.  The Parser object is the record ps of its code, pos, line, *)
(* token_start and token, with how the call at hand ended in st ("ok" or   *)
(* the exception raised, "loop" when it never returns) and the arguments   *)
(* of the SyntaxError in msg; lex is its method lex, a function of the     *)
(* pos and line it is called with.  A parse routine returns [ps, v]: the   *)
(* object as the routine leaves it and the value returned.  What a routine *)
(* does after a call of another routine is an operator of its own.         *)
(***************************************************************************)
ParserOf(code) ==
    [code |-> code, pos |-> 0, line |-> 0, token_start |-> 0, token |-> NoToken,
     st |-> "ok", msg |-> <<>>,
     lex |-> [p \in Nat, line \in Nat |-> lex(code, p, line)]]

Returns(ps, v) == [ps |-> ps, v |-> v]

\* The lexer calls of the parser: what lex leaves in the object.
lexed(ps, r) ==
    [ps EXCEPT !.pos = r.pos, !.line = r.line, !.token_start = r.token_start,
               !.st = r.st, !.msg = IF r.st = "ok" THEN @ ELSE <<"lex">>]

\* nextt: self.token = self.lex(), r being what lex did.
nexttLexed(ps, r) ==
    IF r.st = "ok" THEN [lexed(ps, r) EXCEPT !.token = r.token] ELSE lexed(ps, r)

nextt(ps) == nexttLexed(ps, ps.lex[ps.pos, ps.line])

\* peekt: lex, then put pos back (line and token_start stay where lex left
\* them; nothing is put back when lex raises).
peektLexed(ps, r) ==
    IF r.st = "ok" THEN Returns([lexed(ps, r) EXCEPT !.pos = ps.pos], r.token)
    ELSE Returns(lexed(ps, r), None)

peekt(ps) == peektLexed(ps, ps.lex[ps.pos, ps.line])

testt(ps, t) == ps.token.type = t

\* consumet(t): the token when it is of type t (the next one is lexed), or
\* SyntaxError("Expected t but found ...").
consumet(ps, t) ==
    IF testt(ps, t) THEN Returns(nextt(ps), ps.token)
    ELSE Returns([ps EXCEPT !.st = "SyntaxError",
                            !.msg = <<"Expected", t, ps.token.type>>], None)

RECURSIVE parseExpression(_)

\* CaptureNode(Identifier(self.consumet(IDENTIFIER).value)), after OPCAP.
primaryCaptured(r) ==
    IF r.ps.st # "ok" THEN r ELSE Returns(r.ps, CaptureNode(Identifier(r.v.value.s)))

primaryCapture(ps) ==
    IF ps.st # "ok" THEN Returns(ps, None)
    ELSE primaryCaptured(consumet(ps, "IDENTIFIER"))

\* value = parseExpression(); self.consumet(closing); return wrap(value)
primaryClosed(c, value) ==
    IF c.ps.st # "ok" THEN c ELSE Returns(c.ps, value)

primaryClose(r, closing, block) ==
    IF r.ps.st # "ok" THEN r
    ELSE primaryClosed(consumet(r.ps, closing), IF block THEN CaptureBlock(r.v) ELSE r.v)

\* The while loop of the list branch of parsePrimary: an expression that
\* consumes nothing is parsed again and again.
RECURSIVE primaryList(_, _)
primaryListNext(ps, r, output) ==
    IF r.ps.st # "ok" THEN r
    ELSE IF r.ps.pos = ps.pos /\ r.ps.token = ps.token
    THEN Returns([r.ps EXCEPT !.st = "loop"], None)
    ELSE primaryList(r.ps, Append(output, r.v))

primaryList(ps, output) ==
    IF ps.st # "ok" THEN Returns(ps, None)
    ELSE IF testt(ps, "CLCB") THEN Returns(nextt(ps), List(output))
    ELSE primaryListNext(ps, parseExpression(ps), output)

\* The branches of parsePrimary with an opening token, ps being the object
\* after the opening token was taken.
primaryOpen(ps, opening) ==
    IF ps.st # "ok" THEN Returns(ps, None)
    ELSE CASE opening = "OPEN" ->
                 IF testt(ps, "CLOSE") THEN Returns(nextt(ps), Lst(<<>>))
                 ELSE primaryClose(parseExpression(ps), "CLOSE", FALSE)
           [] opening = "OPCB" ->
                 IF testt(ps, "CLCB") THEN Returns(nextt(ps), Lst(<<>>))
                 ELSE primaryClose(parseExpression(ps), "CLCB", TRUE)
           [] opening = "OPLS" -> primaryList(ps, <<>>)

\* parsePrimary from its third test on.
primaryRest(ps) ==
    CASE testt(ps, "LITERAL") -> Returns(nextt(ps), Literal(ps.token.value.s))
      [] testt(ps, "STRING") -> Returns(nextt(ps), String(ps.token.value.s))
      [] testt(ps, "CLASS") -> Returns(nextt(ps), Class(ps.token.value.l))
      [] testt(ps, "DOT") -> Returns(nextt(ps), Dot)
      [] ps.token.type \in {"OPEN", "OPCB", "OPLS"} ->
             primaryOpen(nextt(ps), ps.token.type)
      [] OTHER -> Returns(ps, None)

\* parsePrimary after the peekt() of its first or second test.
primaryPeeked(ps, pk) ==
    IF pk.ps.st # "ok" THEN pk
    ELSE IF testt(ps, "OPCAP") /\ pk.v.type = "IDENTIFIER"
    THEN primaryCapture(consumet(pk.ps, "OPCAP").ps)
    ELSE IF testt(ps, "IDENTIFIER") /\ pk.v.type # "ARROW"
    THEN Returns(nextt(pk.ps), Identifier(ps.token.value.s))
    ELSE primaryRest(pk.ps)

parsePrimary(ps) ==
    IF testt(ps, "OPCAP") \/ testt(ps, "IDENTIFIER") THEN primaryPeeked(ps, peekt(ps))
    ELSE primaryRest(ps)

suffixEnd(r) ==
    IF r.ps.st # "ok" THEN r
    ELSE CASE testt(r.ps, "QUESTION") -> Returns(nextt(r.ps), Question(r.v))
           [] testt(r.ps, "STAR") -> Returns(nextt(r.ps), Star(r.v))
           [] testt(r.ps, "PLUS") -> Returns(nextt(r.ps), Plus(r.v))
           [] OTHER -> r

parseSuffix(ps) == suffixEnd(parsePrimary(ps))

\* label = self.consumet(IDENTIFIER); return Label([label.value, output])
labeledLabel(c, output) ==
    IF c.ps.st # "ok" THEN c ELSE Returns(c.ps, Label(c.v.value.s, output))

labeledIdentifier(ps, output) ==
    IF ps.st # "ok" THEN Returns(ps, None)
    ELSE labeledLabel(consumet(ps, "IDENTIFIER"), output)

labeledEnd(r) ==
    IF r.ps.st # "ok" THEN r
    ELSE IF testt(r.ps, "LABEL") THEN labeledIdentifier(nextt(r.ps), r.v)
    ELSE r

parseLabeled(ps) == labeledEnd(parseSuffix(ps))

\* The while loop of parseSequence, and its return.
RECURSIVE sequencePrefix(_, _)
sequenceSuffix(r, prefix, output) ==
    IF r.ps.st # "ok" THEN r
    ELSE IF r.v = None
    THEN Returns(r.ps, IF Len(output) > 1 THEN Sequence(output) ELSE fio(Lst(output)))
    ELSE sequencePrefix(r.ps, Append(output, CASE prefix = "AND" -> And(r.v)
                                               [] prefix = "NOT" -> Not(r.v)
                                               [] OTHER -> r.v))

sequenceLabeled(ps, prefix, output) ==
    IF ps.st # "ok" THEN Returns(ps, None)
    ELSE sequenceSuffix(parseLabeled(ps), prefix, output)

sequencePrefix(ps, output) ==
    IF ps.token.type \in {"AND", "NOT"}
    THEN sequenceLabeled(nextt(ps), ps.token.type, output)
    ELSE sequenceLabeled(ps, "", output)

parseSequence(ps) == sequencePrefix(ps, <<>>)

\* The while loop of parseExpression.
RECURSIVE expressionMore(_, _)
expressionNext(ps, output) ==
    IF ps.st # "ok" THEN Returns(ps, None)
    ELSE expressionMore(parseSequence(ps), output)

expressionMore(r, output) ==
    IF r.ps.st # "ok" THEN r
    ELSE IF testt(r.ps, "PRIORITY") THEN expressionNext(nextt(r.ps), Append(output, r.v))
    ELSE Returns(r.ps, Expression(Append(output, r.v)))

parseExpression(ps) == expressionMore(parseSequence(ps), <<>>)

definitionExpression(r, identifier) ==
    IF r.ps.st # "ok" THEN r ELSE Returns(r.ps, Definition(identifier.value.s, r.v))

definitionArrow(a, identifier) ==
    IF a.ps.st # "ok" THEN a ELSE definitionExpression(parseExpression(a.ps), identifier)

definitionIdentifier(i) ==
    IF i.ps.st # "ok" THEN i ELSE definitionArrow(consumet(i.ps, "ARROW"), i.v)

parseDefinition(ps) == definitionIdentifier(consumet(ps, "IDENTIFIER"))

\* The while loop of parseDefinitions (a Definition is never falsy).
RECURSIVE parseDefinitions(_, _)
definitionsNext(r, definitions) ==
    IF r.ps.st # "ok" THEN r ELSE parseDefinitions(r.ps, Append(definitions, r.v))

parseDefinitions(ps, definitions) ==
    IF testt(ps, "END") THEN Returns(ps, definitions)
    ELSE definitionsNext(parseDefinition(ps), definitions)

parseAfterNextt(ps) ==
    IF ps.st # "ok" THEN Returns(ps, None) ELSE parseDefinitions(ps, <<>>)

parse(ps) == parseAfterNextt(nextt(ps))

\* The handler of run: code[mark] is an IndexError when mark is the length
\* of the code; the text of the FormattedException holds the message of the
\* SyntaxError, line + 1 and the code with the marker around code[mark].
runExcept(ps) ==
    IF ps.token_start >= Len(ps.code) THEN [st |-> "IndexError"]
    ELSE [st |-> "FormattedException", message |-> ps.msg, line |-> ps.line + 1,
          mark |-> ps.token_start]

run(r) ==
    IF r.ps.st = "ok" THEN [st |-> "ok", v |-> r.v]
    ELSE IF r.ps.st = "SyntaxError" THEN runExcept(r.ps)
    ELSE [st |-> r.ps.st]

(***************************************************************************)
(* The parsing session: Parser(code).run() on a source.                    *)
(***************************************************************************)
ParseChars == {"a", "<", "-", "%", "'", "(", ")", "{", "}", "?", "\n"}

ParsePrefixes == { <<>>, <<"S", "<", "-">>, <<"S", "<", "-", "a", "\n">> }

ParseSources == {pre \o s : pre \in ParsePrefixes, s \in SeqsUpTo(ParseChars, MaxSrcLen)}

InitParse ==
    /\ \E code \in ParseSources : ParserInit(code)
    /\ MatchIdle
    /\ CompileIdle

\* What run leaves in the Parser object, r being what parse did.
ParserRan(r) ==
    /\ p_pos' = r.ps.pos
    /\ p_line' = r.ps.line
    /\ p_token_start' = r.ps.token_start
    /\ p_token' = r.ps.token
    /\ p_st' = r.ps.st
    /\ p_result' = run(r)
    /\ p_peeked' = NoToken

ParserRun ==
    /\ p_st = "new"
    /\ ParserRan(parse(ParserOf(p_code)))
    /\ UNCHANGED <<p_code, matchVars, compileVars>>

NextParse == ParserRun

SpecParse == InitParse /\ [][NextParse]_vars

\* The token a SyntaxError is about: the current token for one raised by
\* consumet, the token lex was reading for one raised by the lexer.
Offending ==
    IF p_result.message[1] = "Expected" THEN [line |-> p_token.line, pos |-> p_token.pos]
    ELSE [line |-> p_line, pos |-> p_token_start]

\* C19: whenever parsing raises a SyntaxError, wherever the offending token
\* starts, run raises a FormattedException whose text holds the message, the
\* 1-based line of the offending token and the source with the marker at the
\* start of the offending token.
C19_SyntaxErrorIsFormatted ==
    p_result # NoResult /\ p_st = "SyntaxError" =>
        /\ p_result.st = "FormattedException"
        /\ p_result.message # <<>>
        /\ p_result.line = Offending.line + 1
        /\ p_result.mark = Offending.pos

(***************************************************************************)
(* Properties of the lexer at the end of the input.                        *)
(***************************************************************************)
\* The last call of the lexer returned the END token.
AtEnd == p_st = "ok" /\ p_token.type = "END"

newlinesBefore(p) == Cardinality({i \in 1..p : i <= Len(p_code) /\ p_code[i] = "\n"})

\* peekt leaves the cursor and the line counter where they were.
PeekKeepsCursor == PeekT /\ p_st' = "ok" => p_pos' = p_pos /\ p_line' = p_line

\* The nextt that follows a peekt returns the token peekt returned.
NextAfterPeek == p_peeked # NoToken /\ NextT /\ p_st' = "ok" => p_token' = p_peeked

\* The line of a token is the number of newlines before its start.
TokenLine == p_token # NoToken => p_token.line = newlinesBefore(p_token.pos)

\* C22: peekt is a pure lookahead (cursor and line counter as before the
\* call, the following nextt returning an equal token), and every token
\* carries as line the number of newline characters before its start.
C22_PeekIsPure == [][PeekKeepsCursor /\ NextAfterPeek]_vars /\ []TokenLine

(***************************************************************************)
(* Properties of markCaptures, read on the grammar the Compiler was built  *)
(* on (the marks are written on its nodes).                                *)
(***************************************************************************)
\* A Compiler was built, without exception for Built.
Constructed == compiler # NoCompiler
Built == Constructed /\ compiler.st = "ok"

\* The places at and below a place that are not at or below a node of one
\* of the excluded classes.
RECURSIVE placesBelow(_, _)
placesBelow(path, excluded) ==
    IF At(grammar, path).k \in excluded THEN {}
    ELSE {path} \cup UNION {placesBelow(Append(path, i), excluded) :
                               i \in 1..Len(children(At(grammar, path)))}

placesOutside(excluded) == UNION {placesBelow(<<i>>, excluded) : i \in 1..Len(grammar)}

\* The rule names of the Identifier nodes among some places.
identifiersAt(places) == {At(grammar, q).v : q \in {r \in places : At(grammar, r).k = "Identifier"}}

RuleNames == {grammar[i].name : i \in 1..Len(grammar)}

\* The places outside Not of the definition a name stands for.
definitionPlaces(n) == placesBelow(placeOf(grammar)[n], {"Not"})

\* The places outside Not at and below the CaptureBlock nodes outside Not.
blockPlaces ==
    UNION {placesBelow(b, {"Not"}) :
              b \in {q \in placesOutside({"Not"}) : At(grammar, q).k = "CaptureBlock"}}

\* The rules reached by following Identifier references from the names.
RECURSIVE followed(_)
followed(names) ==
    LET more == names \cup UNION {identifiersAt(definitionPlaces(n)) : n \in names \cap RuleNames}
    IN  IF more = names THEN names ELSE followed(more)

reachedFromBlocks == followed(identifiersAt(blockPlaces)) \cap RuleNames

terminalsAmong(places) == {q \in places : At(grammar, q).k \in Terminals}

\* C23: after markCaptures every terminal outside Not inside a CaptureBlock,
\* or outside Not in the definition of a rule reached by following
\* Identifier references from a CaptureBlock, has capture = true, equal
\* terminals of one definition included.
C23_CapturedTerminalsAreMarked ==
    Built =>
        \A q \in terminalsAmong(blockPlaces
                                   \cup UNION {definitionPlaces(n) : n \in reachedFromBlocks}) :
            hasCapture(At(grammar, q))

\* The residual skip set: the rules referenced outside Not and outside every
\* CaptureBlock, and from no CaptureBlock.
residualSkip ==
    (identifiersAt(placesOutside({"Not", "CaptureBlock"})) \ identifiersAt(blockPlaces))
        \cap RuleNames

\* The instructions of the region of the last definition of a name.
regionOf(n) ==
    LET i == lastDefinition(n)
    IN  SubSeq(program.code, program.addresses[i][2] + 1,
               regionEnd(i, compiler.hasCaptureOps))

\* C24: a rule left in the residual skip set has none of the terminals of
\* its definition marked, and its region holds no CAPCHAR.
C24_SkippedRulesAreNotMarked ==
    /\ Built =>
          \A n \in residualSkip :
              \A q \in terminalsAmong(definitionPlaces(n)) : ~hasCapture(At(grammar, q))
    /\ Emitted =>
          \A n \in residualSkip :
              \A j \in 1..Len(regionOf(n)) : regionOf(n)[j].op # Instructions.capchar

\* C25: the construction of a Compiler ends without exception on every
\* grammar whose identifiers all have a definition, recursive rules
\* referenced from a CaptureBlock included.
C25_MarkCapturesTerminates ==
    Constructed /\ identifiersAt(placesOutside({})) \subseteq RuleNames => compiler.st = "ok"

(***************************************************************************)
(* The And session: a grammar of one rule whose body holds an And is       *)
(* compiled, and so is the grammar that has Not(Not(x)) where the first    *)
(* has And(x).                                                             *)
(***************************************************************************)
\* The node with Not(Not(x)) for every And(x).
RECURSIVE asNotNot(_)
asNotNot(node) ==
    CASE node.k = "And" -> Not(Not(asNotNot(node.v)))
      [] node.k \in UnaryKinds \ {"And"} -> [node EXCEPT !.v = asNotNot(@)]
      [] node.k \in ListKinds -> [node EXCEPT !.v = [i \in 1..Len(@) |-> asNotNot(@[i])]]
      [] OTHER -> node

AndBodies ==
    {And(x) : x \in CompileLeaves}
        \cup {Sequence(<<And(x), La>>) : x \in CompileLeaves}
        \cup {CaptureBlock(And(x)) : x \in CompileLeaves}
        \cup {And(And(La)), And(Star(La)), And(Sequence(<<La, Lb>>)), Star(And(Lb)),
              And(Not(La)), And(CaptureBlock(La)), And(Identifier("S")),
              Expression(<<And(La), And(Lb)>>)}

InitAnd ==
    /\ LexIdle
    /\ CompileIdle
    /\ \E x \in AndBodies : grammar = <<Rule("S", x)>>
    /\ data = <<>>
    /\ pos = 0
    /\ atom = Dot
    /\ last = NoCall

\* Compiler(g).genCode() for the grammar g with Not(Not(x)) for And(x), built
\* from the grammar before any Compiler wrote its marks on it.
NotNot ==
    /\ compiler = NoCompiler
    /\ again = NoProgram
    /\ again' = emitted(genCode(Compiler(<<Definition(grammar[1].name,
                                                      asNotNot(grammar[1].expr))>>)))
    /\ UNCHANGED <<matchVars, compiler, program, vm, sids, gen_call, lexVars>>

NextAnd == NewCompiler \/ GenCode \/ NotNot

SpecAnd == InitAnd /\ [][NextAnd]_vars

\* The two Not layers of the code of a rule whose body is And(x): each
\* CHOICE targets the instruction after its layer's FAIL, each COMMIT its
\* layer's FAIL.
AndLayers ==
    LET first == program.addresses[1][2]
        target(a) == a + soperand(program.code[a + 1])
        op(a) == program.code[a + 1].op
    IN  /\ op(first) = Instructions.choice
        /\ target(first) = topReturn
        /\ op(first + 1) = Instructions.choice
        /\ target(first + 1) = topReturn - 2
        /\ op(topReturn - 4) = Instructions.commit
        /\ target(topReturn - 4) = topReturn - 3
        /\ op(topReturn - 3) = Instructions.fail
        /\ op(topReturn - 2) = Instructions.commit
        /\ target(topReturn - 2) = topReturn - 1
        /\ op(topReturn - 1) = Instructions.fail

\* C26: the code emitted for And(x) is, instruction for instruction, the
\* code emitted for Not(Not(x)), and in each of the two Not layers the
\* CHOICE targets the instruction after the layer's FAIL and the COMMIT +1
\* the layer's FAIL.
C26_AndIsNotNot ==
    Emitted /\ again # NoProgram =>
        /\ again.st = "ok"
        /\ again.code = program.code
        /\ topBody.k = "And" => AndLayers

(***************************************************************************)
(* The code of Star, Question and Plus, read on the region of a first rule *)
(* whose body is one of them.                                              *)
(***************************************************************************)
firstAddress == program.addresses[1][2]
opAt(a) == program.code[a + 1].op
targetAt(a) == a + soperand(program.code[a + 1])

\* The code of the node x compiled on its own, the capture flag unset.
bodyCode(x) == cc([compiler EXCEPT !.pos = 0, !.code = <<>>, !.capture = FALSE], x).c.code

\* Star(x) from address a on, x being n instructions long: the CHOICE at a
\* targets the instruction after the COMMIT, the COMMIT the CHOICE, its
\* offset written in 27 bits two's complement.
StarLayout(a, n) ==
    /\ opAt(a) = Instructions.choice
    /\ targetAt(a) = a + n + 2
    /\ opAt(a + n + 1) = Instructions.commit
    /\ targetAt(a + n + 1) = a
    /\ program.code[a + n + 2].arg = 2 ^ OPERATOR_OFFSET - (n + 1)

\* Question(x): the CHOICE and the COMMIT both target the instruction after
\* the COMMIT.
QuestionLayout(a, n) ==
    /\ opAt(a) = Instructions.choice
    /\ targetAt(a) = a + n + 2
    /\ opAt(a + n + 1) = Instructions.commit
    /\ targetAt(a + n + 1) = a + n + 2

\* C27: in the code of Star(x) the CHOICE targets the instruction after the
\* COMMIT and the COMMIT, a negative offset in 27 bits two's complement,
\* the CHOICE; in the code of Question(x) both target the instruction after
\* the COMMIT; the code of Plus(x) is the code of x followed by the code of
\* Star(x).
C27_RepetitionLayout ==
    Emitted =>
        /\ topBody.k = "Star" => StarLayout(firstAddress, (topReturn - firstAddress) - 2)
        /\ topBody.k = "Question" =>
               QuestionLayout(firstAddress, (topReturn - firstAddress) - 2)
        /\ topBody.k = "Plus" =>
               LET x == bodyCode(topBody.v)
                   n == Len(x)
               IN  /\ topReturn - firstAddress = 2 * n + 2
                   /\ SubSeq(program.code, firstAddress + 1, firstAddress + n) = x
                   /\ StarLayout(firstAddress + n, n)
                   /\ SubSeq(program.code, firstAddress + n + 2, firstAddress + 2 * n + 1) = x

\* The program of S <- x+ for an x of more than one instruction.
C27_Witness ==
    /\ Emitted
    /\ topBody.k = "Plus"
    /\ Len(bodyCode(topBody.v)) > 2
    /\ StarLayout(firstAddress + Len(bodyCode(topBody.v)), Len(bodyCode(topBody.v)))

(***************************************************************************)
(* Labels.                                                                 *)
(***************************************************************************)
\* The node with the ordered choice Expression([x, Throw(name)]) for every
\* Label(name, x).
RECURSIVE asChoice(_)
asChoice(node) ==
    CASE node.k = "Label" -> Expression(<<asChoice(node.v), Throw(node.label)>>)
      [] node.k \in UnaryKinds -> [node EXCEPT !.v = asChoice(@)]
      [] node.k \in ListKinds -> [node EXCEPT !.v = [i \in 1..Len(@) |-> asChoice(@[i])]]
      [] OTHER -> node

labelPlaces == {q \in placesOutside({}) : At(grammar, q).k = "Label"}

\* r, what genCode left for another grammar, is the program and the string
\* table of the session.
SameProgram(r) ==
    /\ r.st = "ok"
    /\ r.code = program.code
    /\ r.c.strings = compiler.strings

\* Every THROW of the program has as operand 2 more than the index in the
\* string table of the name of a label.
ThrowOperands ==
    \A a \in 0..(codeLen - 1) :
        opAt(a) = Instructions.throw =>
            /\ program.code[a + 1].arg >= 2
            /\ program.code[a + 1].arg - 2 < Len(compiler.strings)
            /\ compiler.strings[program.code[a + 1].arg - 1]
                   \in {At(grammar, q).label : q \in labelPlaces}

\* C28: Label(name, x) compiles to the code of Expression([x, Throw(name)]),
\* and every THROW emitted has the operand sid(name) + 2 (2 at least), sid
\* being the index of the label in the string table shared with rule names
\* and atoms.
C28_LabelIsChoiceWithThrow ==
    Emitted /\ labelPlaces # {} =>
        /\ SameProgram(genCode(Compiler(
               [i \in 1..Len(grammar) |->
                   Definition(grammar[i].name, asChoice(grammar[i].expr))])))
        /\ ThrowOperands

\* A program with a THROW whose label is not the first string of the table.
C28_Witness ==
    /\ Emitted
    /\ ThrowOperands
    /\ \E a \in 0..(codeLen - 1) : opAt(a) = Instructions.throw /\ program.code[a + 1].arg > 2

(***************************************************************************)
(* The shape of the AST returned by the parser.                            *)
(***************************************************************************)
\* An instance of Node, as opposed to None or a bare list.
isNode(x) == "k" \in DOMAIN x

\* Every child below x is a Node.
RECURSIVE closedNode(_)
closedNode(x) ==
    /\ isNode(x)
    /\ CASE x.k \in UnaryKinds \cup {"Label"} -> closedNode(x.v)
         [] x.k \in ListKinds -> \A i \in 1..Len(x.v) : closedNode(x.v[i])
         [] OTHER -> TRUE

\* C29: every AST returned by the parser is built only from nodes: each
\* child of a Grammar, Definition, Expression, Sequence, prefix, suffix,
\* Label, List or capture node is a node, never a bare list or None, a
\* source in which an operator has no operand being rejected with a
\* SyntaxError instead.
C29_AstIsClosed ==
    p_result # NoResult /\ p_result.st = "ok" =>
        \A i \in 1..Len(p_result.v) : closedNode(p_result.v[i].expr)

(***************************************************************************)
(* The cursor of the direct matcher.                                       *)
(***************************************************************************)
\* C30: after any sequence of matchAtom calls the cursor is within
\* 0..len(data), and a call that matched did not leave the cursor before
\* the place where it began.
C30_CursorInBounds ==
    /\ 0 <= pos
    /\ pos <= Len(data)
    /\ last.called /\ last.r.st = "ok" /\ last.r.m => last.r.p >= last.p0

\* A second call that matched from a cursor the first one had moved, at the
\* end of the input afterwards.
C30_Witness ==
    /\ last.called
    /\ last.r.st = "ok"
    /\ last.r.m
    /\ last.p0 > 0
    /\ last.r.p > last.p0
    /\ pos = Len(data)

====
